---- MODULE Spec2Model ----
(***************************************************************************)
(* A model of serialwarp: the frame segmentation and reassembly of         *)
(* serialwarp-core (frame.rs), and the source / sink session state         *)
(* machines of the two binaries (serialwarp-source, serialwarp-sink) over  *)
(* a packet transport.                                                     *)
(*                                                                         *)
(* Byte buffers are kept symbolically: a buffer is a sequence of maximal   *)
(* runs <<buf, lo, hi>>, the bytes lo..hi-1 of the encoded buffer `buf`.   *)
(* Two byte strings built from slices of encoded buffers are equal (for    *)
(* arbitrary buffer contents) exactly when their run sequences are equal.  *)
(***************************************************************************)
EXTENDS Integers, Sequences, FiniteSets, TLC

VARIABLES
    \* ---- segmentation driver (EncodedFrame::into_segments) ----
    encoded,        \* <<>> or <<f>>: the frame last handed to into_segments
    segments,       \* the Vec<FrameSegment> it returned
    \* ---- reassembly driver (FrameReassembler) ----
    pending,        \* FrameReassembler.pending: <<>> (None) or <<PendingFrame>>
    panicked,       \* an add_segment call indexed outside received_segments
    lastSeg,        \* <<>> or <<s>>: the segment of the last add_segment call
    prevSeg,        \* the segment of the call before the last
    lastRet,        \* <<>> (None) or <<EncodedFrame>>: what the last call returned
    prevPending,    \* `pending` as it was before the last call
    runSegs,        \* the segments fed since the pending frame was last allocated
    runFresh,       \* that allocation found no pending frame (pending was None)
    feeds,          \* number of add_segment calls made
    \* ---- session: serialwarp-source (run_source) ----
    srcPc,          \* position of run_source's main task
    ackPc,          \* the spawned ACK receiver task: "None", "Running", "Done"
    srcConn,        \* the source transport's `connected` flag
    credits,        \* the AtomicU16 credit counter
    creditsWide,    \* the exact (unwrapped) result of its last update
    srcSeq,         \* run_source's `sequence`
    frame_count,    \* the capture stream's frame counter
    frameBudget,    \* frames the capture stream can deliver before it ends
    sendSegs,       \* segments of the current frame still to be sent
    \* ---- session: serialwarp-sink (run_sink) ----
    snkPc,          \* position of run_sink
    snkConn,        \* the sink transport's `connected` flag
    snkSeq,         \* run_sink's `sequence`
    snkCredits,     \* args.credits of the sink
    snkFrameNumber, \* run_sink's display `frame_number`
    \* ---- the link ----
    toSink,         \* buffers in flight, source -> sink
    toSrc,          \* buffers in flight, sink -> source
    \* ---- history of the session ----
    srcSent,        \* packets the source handed to its transport, in order
    snkSent,        \* packets the sink handed to its transport, in order
    srcRcvd,        \* types of the packets the source has parsed
    snkRcvd,        \* types of the packets the sink has parsed
    srcHs,          \* types the source parsed during its handshake, in order
    snkHs,          \* types the sink parsed during its handshake, in order
    srcStartAck,    \* <<>> or <<p>>: the START_ACK payload the source parsed
    snkCompleted,   \* the frames the sink's reassembler emitted, in order
    snkWarned,      \* the warn! messages the sink's main loop has logged
    decrements,     \* fetch_sub calls made on the credit counter
    granted,        \* sum of credits_returned added by fetch_add
    injected,       \* foreign buffers put on the link
    faults,         \* transfers that failed with an I/O error
    \* ---- packet codec driver (Packet::to_bytes / Packet::parse) ----
    pktIn,          \* <<>> or <<p>>: the packet last serialized
    pktBytes,       \* the buffer last handed to Packet::parse
    pktFlip,        \* <<>> or <<i, k>>: bit k of byte i of that buffer was flipped
    pktRes,         \* what Packet::parse returned for pktBytes
    pktDamage,      \* <<>> or <<d>>: the fields of that buffer that were damaged
                    \* together, and where it was cut
    \* ---- statistics of the display side (AppState) ----
    frames_dropped, \* AppState.frames_dropped, the only dropped-frame counter
    \* ---- transport driver (a MockTransport pair and a UsbTransport) ----
    mockCells,      \* the AtomicBool cells that `connected` fields point to
    chans,          \* the two mpsc channels: buffers sent and not yet received
    mockBlocked,    \* endpoints with a recv() waiting on an empty channel
    mockSent,       \* per endpoint: the buffers its send() calls accepted
    mockRcvd,       \* per endpoint: the buffers its recv() calls returned
    usbConn,        \* the UsbTransport's `connected` flag
    usbWire,        \* buffers the device holds for bulk_in
    usbOut,         \* number of buffers written by bulk_out
    mockDown,       \* the endpoints of the pair on which close() was called
    usbDown,        \* the UsbTransport was closed or had an I/O error
    lastCall,       \* the last call that returned, and what it returned
    calls,          \* number of transport calls made
    \* ---- the encoder of the source ----
    encodedLen,     \* length of the buffer each EncodedFrame is built from
    \* ---- the kind of transport the session runs on ----
    peerGone,       \* it is a MockTransport whose other endpoint was dropped
    \* ---- the display app (AppState and its receiving loops) ----
    is_receiving,       \* AppState.is_receiving
    connection_status,  \* AppState.connection_status
    transport_is_some,  \* AppState.transport holds a transport
    recvLoops,          \* the receiving_loop tasks spawned so far: where each
                        \* stands, and whether a stop came after its start
    \* ---- the capture app (AppState and its streaming loops) ----
    is_streaming,            \* AppState.is_streaming
    capture_stream_is_some,  \* AppState.streaming holds a capture stream and an encoder
    startCalls,              \* the start_streaming calls made so far: where each stands
    stopTaking,              \* a stop has cleared the flag and waits for the streaming lock
    streamLoops              \* the streaming_loop tasks spawned so far: where each stands

reasmHist == <<lastSeg, prevSeg, lastRet, prevPending, runSegs, runFresh, feeds>>
reasmVars == <<pending, panicked, reasmHist>>
segVars == <<encoded, segments>>
srcVars == <<srcPc, ackPc, srcConn, credits, creditsWide, srcSeq, frame_count, sendSegs>>
snkVars == <<snkPc, snkConn, snkSeq, snkCredits, snkFrameNumber>>
linkVars == <<toSink, toSrc>>
histVars == <<srcSent, snkSent, srcRcvd, snkRcvd, srcHs, snkHs, srcStartAck,
              snkCompleted, snkWarned, decrements, granted, injected, faults>>
sessionVars == <<srcVars, snkVars, linkVars, histVars, frameBudget>>
pktVars == <<pktIn, pktBytes, pktFlip, pktRes, pktDamage>>
statVars == <<frames_dropped>>
mockVars == <<mockCells, chans, mockBlocked, mockSent, mockRcvd, mockDown>>
usbVars == <<usbConn, usbWire, usbOut, usbDown>>
transportVars == <<mockVars, usbVars, lastCall, calls>>
encVars == <<encodedLen>>
appVars == <<is_receiving, connection_status, transport_is_some, recvLoops>>
goneVars == <<peerGone>>
capVars == <<is_streaming, capture_stream_is_some, startCalls, stopTaking, streamLoops>>
unitVars == <<pktVars, statVars, transportVars, encVars, appVars, goneVars, capVars>>
vars == <<segVars, reasmVars, sessionVars, unitVars>>

(***************************************************************************)
(* Program constants                                                       *)
(***************************************************************************)
MAX_SEGMENT_SIZE == 65536
U16_MAX == 65535

(***************************************************************************)
(* Bounds of the model                                                     *)
(***************************************************************************)
\* into_segments is applied to buffers of up to MaxSegs full segments (+1 byte)
MaxSegs == 3
\* number of add_segment calls in one run of the reassembly driver
MaxFeeds == 5

Min(a, b) == IF a <= b THEN a ELSE b
Max(a, b) == IF a >= b THEN a ELSE b

(***************************************************************************)
(* Symbolic byte strings                                                   *)
(***************************************************************************)
\* the bytes lo..hi-1 of the encoded buffer buf
Slice(buf, lo, hi) == IF lo >= hi THEN <<>> ELSE << <<buf, lo, hi>> >>

\* a ++ b  (Vec::extend_from_slice), runs that continue each other are merged
Cat(a, b) ==
    IF a = <<>> THEN b
    ELSE IF b = <<>> THEN a
    ELSE LET x == a[Len(a)]
             y == b[1]
         IN  IF x[1] = y[1] /\ x[3] = y[2]
             THEN SubSeq(a, 1, Len(a) - 1) \o << <<x[1], x[2], y[3]>> >> \o Tail(b)
             ELSE a \o b

RECURSIVE ByteLen(_)
ByteLen(d) == IF d = <<>> THEN 0 ELSE (d[1][3] - d[1][2]) + ByteLen(Tail(d))

\* d[lo..hi) of a byte string d  (Rust: self.data[offset..segment_end].to_vec())
RECURSIVE SubBytes(_, _, _)
SubBytes(d, lo, hi) ==
    IF d = <<>> \/ lo >= hi THEN <<>>
    ELSE LET n == d[1][3] - d[1][2]
         IN  IF lo >= n THEN SubBytes(Tail(d), lo - n, hi - n)
             ELSE Cat(Slice(d[1][1], d[1][2] + lo, d[1][2] + Min(hi, n)),
                      SubBytes(Tail(d), 0, hi - n))

(***************************************************************************)
(* frame.rs: FrameMetadata, EncodedFrame                                   *)
(***************************************************************************)
FrameMetadata(frame_number, pts_us, capture_ts_us, is_keyframe) ==
    [frame_number |-> frame_number, pts_us |-> pts_us,
     capture_ts_us |-> capture_ts_us, is_keyframe |-> is_keyframe]

EncodedFrame(metadata, data) == [metadata |-> metadata, data |-> data]

\* An encoded frame whose data is the whole buffer `buf` of `len` bytes
FrameOfBuffer(frame_number, pts_us, capture_ts_us, is_keyframe, buf, len) ==
    EncodedFrame(FrameMetadata(frame_number, pts_us, capture_ts_us, is_keyframe),
                 Slice(buf, 0, len))

FrameSegment(metadata, frame_size, segment_index, segment_count, data) ==
    [metadata |-> metadata, frame_size |-> frame_size,
     segment_index |-> segment_index, segment_count |-> segment_count,
     data |-> data]

\* mutant: one segment too many when the size is a multiple of the segment size
segment_count_wrong(total_size) == total_size \div MAX_SEGMENT_SIZE + 1
\* (total_size + MAX_SEGMENT_SIZE - 1) / MAX_SEGMENT_SIZE, then .max(1)
segment_count_of(total_size) ==
    Max((total_size + MAX_SEGMENT_SIZE - 1) \div MAX_SEGMENT_SIZE, 1)

\* the for loop of into_segments: i counts 0..segment_count-1, offset runs on
RECURSIVE segment_loop(_, _, _, _, _)
segment_loop(frame, total_size, segment_count, i, offset) ==
    IF i >= segment_count THEN <<>>
    ELSE LET segment_end == Min(offset + MAX_SEGMENT_SIZE, total_size)
         IN  << FrameSegment(frame.metadata, total_size, i, segment_count,
                             SubBytes(frame.data, offset, segment_end)) >>
             \o segment_loop(frame, total_size, segment_count, i + 1, segment_end)

\* the assert of into_segments fails: `segment_count <= u16::MAX` is false
into_segments_panics(frame) == segment_count_of(ByteLen(frame.data)) > U16_MAX

\* mutant: the segments come out last first
into_segments_desc(frame) ==
    LET total_size == ByteLen(frame.data)
        s == segment_loop(frame, total_size, segment_count_of(total_size), 0, 0)
    IN  [i \in 1..Len(s) |-> s[Len(s) + 1 - i]]
\* EncodedFrame::into_segments, for a frame that passes its assert
into_segments(frame) ==
    LET total_size == ByteLen(frame.data)
        segment_count == segment_count_of(total_size)
    IN  IF segment_count = 1
        THEN << FrameSegment(frame.metadata, total_size, 0, 1, frame.data) >>
        ELSE segment_loop(frame, total_size, segment_count, 0, 0)

(***************************************************************************)
(* protocol.rs: FrameHeader as built from a segment (FrameSegment::        *)
(* to_payload) and read back by the sink                                   *)
(***************************************************************************)
FrameHeader(frame_number, pts_us, capture_ts_us, frame_size, segment_index, segment_count) ==
    [frame_number |-> frame_number, pts_us |-> pts_us,
     capture_ts_us |-> capture_ts_us, frame_size |-> frame_size,
     segment_index |-> segment_index, segment_count |-> segment_count]

HeaderOf(segment) ==
    FrameHeader(segment.metadata.frame_number, segment.metadata.pts_us,
                segment.metadata.capture_ts_us, segment.frame_size,
                segment.segment_index, segment.segment_count)

(***************************************************************************)
(* frame.rs: FrameReassembler                                              *)
(***************************************************************************)
None == <<>>
Some(x) == <<x>>

PendingFrame(frame_number, pts_us, capture_ts_us, frame_size, segment_count, received_segments, received_count) ==
    [frame_number |-> frame_number, pts_us |-> pts_us,
     capture_ts_us |-> capture_ts_us, frame_size |-> frame_size,
     segment_count |-> segment_count, received_segments |-> received_segments,
     received_count |-> received_count]

\* received_segments.into_iter().flatten() extended into data, in slot order
RECURSIVE flatten_slots(_)
flatten_slots(slots) ==
    IF slots = <<>> THEN <<>>
    ELSE IF slots[1] = None THEN flatten_slots(Tail(slots))
    ELSE Cat(slots[1][1], flatten_slots(Tail(slots)))

\* mutant: the slots concatenated last to first
RECURSIVE flatten_slots_rev(_)
flatten_slots_rev(slots) ==
    IF slots = <<>> THEN <<>>
    ELSE IF slots[1] = None THEN flatten_slots_rev(Tail(slots))
    ELSE Cat(flatten_slots_rev(Tail(slots)), slots[1][1])

complete_frame_rev(p) ==
    EncodedFrame(FrameMetadata(p.frame_number, p.pts_us, p.capture_ts_us, FALSE),
                 flatten_slots_rev(p.received_segments))
\* FrameReassembler::complete_frame on a pending frame p (pending.take())
complete_frame(p) ==
    EncodedFrame(FrameMetadata(p.frame_number, p.pts_us, p.capture_ts_us, FALSE),
                 flatten_slots(p.received_segments))

Result(pend, ret, panic) == [pending |-> pend, ret |-> ret, panic |-> panic]

\* the branch of add_segment that starts a new frame reassembly
start_new_frame(header, data) ==
    LET received_segments ==
            [k \in 1..header.segment_count |->
                IF k = header.segment_index + 1 THEN Some(data) ELSE None]
        p == PendingFrame(header.frame_number, header.pts_us, header.capture_ts_us,
                          header.frame_size, header.segment_count,
                          received_segments, 1)
    IN  IF header.segment_index >= header.segment_count
        THEN Result(None, None, TRUE)
        ELSE IF header.segment_count = 1
        THEN Result(None, Some(complete_frame(p)), FALSE)
        ELSE Result(Some(p), None, FALSE)

\* the branch of add_segment that adds to the existing pending frame p
add_to_existing(p, header, data) ==
    IF header.segment_index >= Len(p.received_segments)
    THEN Result(Some(p), None, TRUE)
    ELSE IF p.received_segments[header.segment_index + 1] # None
    THEN Result(Some(p), None, FALSE)
    ELSE LET q == [p EXCEPT !.received_segments[header.segment_index + 1] = Some(data),
                            !.received_count = (p.received_count + 1) % (U16_MAX + 1)]
         IN  IF q.received_count = q.segment_count
             THEN Result(None, Some(complete_frame(q)), FALSE)
             ELSE Result(Some(q), None, FALSE)

\* mutant: a segment of another frame_number is ignored while a frame is pending
add_segment_keep_old(pend, header, data) ==
    IF pend = None THEN start_new_frame(header, data)
    ELSE IF pend[1].frame_number # header.frame_number THEN Result(pend, None, FALSE)
    ELSE add_to_existing(pend[1], header, data)

\* FrameReassembler::add_segment(&mut self, header, data) -> Option<EncodedFrame>
add_segment(pend, header, data) ==
    IF pend = None \/ pend[1].frame_number # header.frame_number
    THEN start_new_frame(header, data)
    ELSE add_to_existing(pend[1], header, data)

(***************************************************************************)
(* Session: program constants (command-line defaults) and bounds           *)
(***************************************************************************)
PROTOCOL_VERSION == 1
ARGS_WIDTH == 1920
ARGS_HEIGHT == 1080
ARGS_FPS == 60
ARGS_BITRATE_MBPS == 20
SINK_MAX_WIDTH == 3840
SINK_MAX_HEIGHT == 2160
SINK_MAX_FPS == 60
DEFAULT_CREDITS == 8
PLACEHOLDER_LEN == 1024
FRAME_INTERVAL_US == 1000000 \div ARGS_FPS

\* frames the capture stream delivers in one session, with a conforming peer
\* and with a peer that does not follow the protocol
MaxFrames == 4
MaxRogueFrames == 1
\* foreign buffers a non-conforming peer puts on the link
MaxInject == 1
\* transfers that fail with an I/O error
MaxFaults == 1

\* values of the sink's --credits option the model runs with
CreditChoices == {2, DEFAULT_CREDITS, U16_MAX}

(***************************************************************************)
(* protocol.rs: packets and typed payloads                                 *)
(***************************************************************************)
PacketTypes == {"Hello", "HelloAck", "Start", "StartAck", "Frame", "FrameAck",
                "Stop", "StopAck", "Ping", "Pong"}

\* Packet::new; payload_length and the CRC are those of a well-formed packet
Packet(packet_type, flags, sequence, payload) ==
    [type |-> packet_type, flags |-> flags, sequence |-> sequence, payload |-> payload]

\* a buffer that Packet::parse rejects
Garbage == [type |-> "Garbage"]

\* x << 16 on a u32: the bits above the low 16 of x are shifted out
shl16(x) == (x % 65536) * 65536

\* HelloPayload::new: max_fps is stored as 16.16 fixed point (max_fps << 16)
HelloPayload(software_version, max_width, max_height, max_fps, capabilities) ==
    [software_version |-> software_version, min_protocol_version |-> PROTOCOL_VERSION,
     max_protocol_version |-> PROTOCOL_VERSION, max_width |-> max_width,
     max_height |-> max_height, max_fps_fixed |-> shl16(max_fps),
     capabilities |-> capabilities]

\* mutant: the 16.16 fixed-point value is taken as the frame rate
max_fps_fixed_point(p) == p.max_fps_fixed
\* HelloPayload::max_fps: max_fps_fixed >> 16
max_fps(p) == p.max_fps_fixed \div 65536

\* StartPayload::new
StartPayload(width, height, fps, bitrate_bps) ==
    [width |-> width, height |-> height, fps_fixed |-> shl16(fps),
     bitrate_bps |-> bitrate_bps]

\* StartPayload::parse reads the first 16 payload bytes as four u32; a HELLO
\* or HELLO_ACK payload read this way yields its own leading fields
StartPayload_parse(packet) ==
    IF packet.type = "Start" THEN packet.payload
    ELSE [width |-> packet.payload.software_version
                    + 65536 * packet.payload.min_protocol_version,
          height |-> packet.payload.max_protocol_version,
          fps_fixed |-> packet.payload.max_width,
          bitrate_bps |-> packet.payload.max_height]

\* StartPayload::parse accepts the payload
StartPayload_parse_ok(p) == ~(p.width = 0 \/ p.height = 0)

\* StartAckPayload::new, ::ok, ::is_ok
StartAckPayload(status, initial_credits) ==
    [status |-> status, initial_credits |-> initial_credits]
StartAckPayload_ok(initial_credits) == StartAckPayload(0, initial_credits)
is_ok(p) == p.status = 0

\* StartAckPayload::parse reads byte 0 as status and bytes 2..3 as
\* initial_credits, whatever packet the 4 bytes came in
StartAckPayload_parse(packet) ==
    CASE packet.type = "StartAck" -> packet.payload
      [] packet.type \in {"Hello", "HelloAck"} ->
            StartAckPayload(packet.payload.software_version % 256,
                            packet.payload.min_protocol_version)
      [] packet.type = "FrameAck" ->
            StartAckPayload(packet.payload.frame_number % 256,
                            (packet.payload.frame_number \div 65536) % 65536)

\* mutant: every FRAME_ACK names frame 0
FrameAckPayload_zero(frame_number, decode_time_us, credits_returned) ==
    [frame_number |-> 0, decode_time_us |-> decode_time_us,
     credits_returned |-> credits_returned]
\* FrameAckPayload::new (decode_time_us is wall-clock time, kept as 0)
FrameAckPayload(frame_number, decode_time_us, credits_returned) ==
    [frame_number |-> frame_number, decode_time_us |-> decode_time_us,
     credits_returned |-> credits_returned]

PingPayload(timestamp_us) == [timestamp_us |-> timestamp_us]
PongPayload(ping_timestamp_us, pong_timestamp_us) ==
    [ping_timestamp_us |-> ping_timestamp_us, pong_timestamp_us |-> pong_timestamp_us]

\* FrameSegment::to_payload: the FrameHeader followed by the segment's bytes
to_payload(segment) == [header |-> HeaderOf(segment), data |-> segment.data]

\* FrameHeader::SIZE
FRAME_HEADER_SIZE == 32

\* the payload of a FRAME packet that is too short to hold a FrameHeader
TruncatedPayload(len) == [truncated |-> len]

\* FrameHeader::parse accepts the header
FrameHeader_parse_ok(h) == ~(h.segment_count = 0) /\ ~(h.segment_index >= h.segment_count)

(***************************************************************************)
(* protocol.rs at the level of bytes: a buffer is a sequence of bytes      *)
(* 0..255.  A u32 is kept as the 32-bit integer with the same bits (the    *)
(* values 2^31 .. 2^32-1 are the negative ones), so that every header a    *)
(* buffer can hold has a value.                                            *)
(***************************************************************************)
MAGIC == 1398231632
HEADER_SIZE == 16
CRC_SIZE == 4

\* bit k (0 = least significant) of the byte b, and b ^ mask
bit(b, k) == (b \div (2^k)) % 2
xor_u8(b, mask) ==
    LET x(k) == ((bit(b, k) + bit(mask, k)) % 2) * (2^k)
    IN  x(0) + x(1) + x(2) + x(3) + x(4) + x(5) + x(6) + x(7)

\* BufMut::put_u16_le / put_u32_le, and the big-endian order they do not use
put_u16_le(v) == <<v % 256, (v \div 256) % 256>>
put_u32_be(v) ==
    <<(v \div 16777216) % 256, (v \div 65536) % 256, (v \div 256) % 256, v % 256>>
put_u32_le(v) ==
    <<v % 256, (v \div 256) % 256, (v \div 65536) % 256, (v \div 16777216) % 256>>

\* Buf::get_u16_le / get_u32_le (and u32::from_le_bytes) at the offset `at`
get_u16_le(data, at) == data[at + 1] + 256 * data[at + 2]
get_u32_le(data, at) ==
    data[at + 1] + 256 * data[at + 2] + 65536 * data[at + 3]
    + 16777216 * (IF data[at + 4] >= 128 THEN data[at + 4] - 256 ELSE data[at + 4])

\* `packet_type as u8` and PacketType::from_u8
PacketType_as_u8(packet_type) ==
    CASE packet_type = "Hello" -> 1      [] packet_type = "HelloAck" -> 2
      [] packet_type = "Start" -> 3      [] packet_type = "StartAck" -> 4
      [] packet_type = "Frame" -> 16     [] packet_type = "FrameAck" -> 17
      [] packet_type = "Stop" -> 48      [] packet_type = "StopAck" -> 49
      [] packet_type = "Ping" -> 64      [] packet_type = "Pong" -> 65

PacketType_from_u8(value) ==
    CASE value = 1 -> "Hello"     [] value = 2 -> "HelloAck"
      [] value = 3 -> "Start"     [] value = 4 -> "StartAck"
      [] value = 16 -> "Frame"    [] value = 17 -> "FrameAck"
      [] value = 48 -> "Stop"     [] value = 49 -> "StopAck"
      [] value = 64 -> "Ping"     [] value = 65 -> "Pong"
      [] OTHER -> "UnknownPacketType"

\* CRC32C (Castagnoli) as the crc32c crate computes it: reflected, polynomial
\* 0x82F63B78, initial value and final XOR 0xFFFFFFFF.  The register is a
\* sequence of 32 bits, least significant first
CRC32C_POLY ==
    <<0,0,0,1,1,1,1,0, 1,1,0,1,1,1,0,0, 0,1,1,0,1,1,1,1, 0,1,0,0,0,0,0,1>>

\* a ^ b on two registers (SubSeq makes the result a sequence of values)
xor32(a, b) == SubSeq([i \in 1..32 |-> (a[i] + b[i]) % 2], 1, 32)

\* one step: crc = if crc & 1 { (crc >> 1) ^ POLY } else { crc >> 1 }
crc_shift(c) ==
    LET shifted == Tail(c) \o <<0>>
    IN  IF c[1] = 1 THEN xor32(shifted, CRC32C_POLY) ELSE shifted

RECURSIVE crc_shifts(_, _)
crc_shifts(c, n) == IF n = 0 THEN c ELSE crc_shifts(crc_shift(c), n - 1)

crc_byte(c, b) ==
    crc_shifts(xor32(c, [i \in 1..32 |-> IF i <= 8 THEN bit(b, i - 1) ELSE 0]), 8)

\* the bytes data[i..] folded into the register c, which stays 32 bits wide
RECURSIVE crc_update(_, _, _)
crc_update(c, data, i) ==
    IF i > Len(data) THEN c
    ELSE LET next == crc_byte(c, data[i])
         IN  CASE Len(next) = 32 -> crc_update(next, data, i + 1)

\* the u32 with the bits c[i..32]
RECURSIVE bits_u32(_, _)
bits_u32(c, i) == IF i = 32 THEN 0 - c[32] ELSE c[i] + 2 * bits_u32(c, i + 1)

crc32c(data) ==
    LET c == crc_update(SubSeq([i \in 1..32 |-> 1], 1, 32), data, 1)
    IN  bits_u32(xor32(c, [i \in 1..32 |-> 1]), 1)

\* PacketHeader::new and PacketHeader::to_bytes
PacketHeader(packet_type, flags, sequence, length) ==
    [magic |-> MAGIC, version |-> PROTOCOL_VERSION, packet_type |-> packet_type,
     flags |-> flags, sequence |-> sequence, payload_length |-> length]

PacketHeader_to_bytes(h) ==
    put_u32_le(h.magic) \o <<h.version>> \o <<PacketType_as_u8(h.packet_type)>>
    \o put_u16_le(h.flags) \o put_u32_le(h.sequence) \o put_u32_le(h.payload_length)

\* PacketHeader::parse without its version check
PacketHeader_parse_any_version(data) ==
    IF Len(data) < HEADER_SIZE THEN [res |-> "BufferTooShort"]
    ELSE IF get_u32_le(data, 0) # MAGIC THEN [res |-> "InvalidMagic"]
    ELSE IF PacketType_from_u8(data[6]) = "UnknownPacketType"
    THEN [res |-> "UnknownPacketType"]
    ELSE [res |-> "Ok",
          header |-> [magic |-> get_u32_le(data, 0), version |-> data[5],
                      packet_type |-> PacketType_from_u8(data[6]),
                      flags |-> get_u16_le(data, 6),
                      sequence |-> get_u32_le(data, 8),
                      payload_length |-> get_u32_le(data, 12)]]

\* PacketHeader::parse
PacketHeader_parse(data) ==
    IF Len(data) < HEADER_SIZE THEN [res |-> "BufferTooShort"]
    ELSE IF get_u32_le(data, 0) # MAGIC THEN [res |-> "InvalidMagic"]
    ELSE IF data[5] # PROTOCOL_VERSION THEN [res |-> "UnsupportedVersion"]
    ELSE IF PacketType_from_u8(data[6]) = "UnknownPacketType"
    THEN [res |-> "UnknownPacketType"]
    ELSE [res |-> "Ok",
          header |-> [magic |-> get_u32_le(data, 0), version |-> data[5],
                      packet_type |-> PacketType_from_u8(data[6]),
                      flags |-> get_u16_le(data, 6),
                      sequence |-> get_u32_le(data, 8),
                      payload_length |-> get_u32_le(data, 12)]]

\* Packet::new on a payload of bytes
Packet_new(packet_type, flags, sequence, payload) ==
    [header |-> PacketHeader(packet_type, flags, sequence, Len(payload)),
     payload |-> payload]

\* Packet::to_bytes: header, payload, then the CRC32C of both
Packet_to_bytes(p) ==
    LET buf == PacketHeader_to_bytes(p.header) \o p.payload
    IN  buf \o put_u32_le(crc32c(buf))

\* mutant: the CRC at the end of the buffer is verified before the header
Packet_parse_crc_first(data) ==
    LET h == PacketHeader_parse(data)
    IN  IF /\ Len(data) >= HEADER_SIZE + CRC_SIZE
           /\ get_u32_le(data, Len(data) - CRC_SIZE)
                 # crc32c(SubSeq(data, 1, Len(data) - CRC_SIZE))
        THEN [res |-> "ChecksumMismatch"]
        ELSE IF h.res # "Ok" THEN [res |-> h.res]
        ELSE IF \/ h.header.payload_length < 0
                \/ Len(data) - HEADER_SIZE - CRC_SIZE < h.header.payload_length
        THEN [res |-> "BufferTooShort"]
        ELSE LET payload_end == HEADER_SIZE + h.header.payload_length
             IN  [res |-> "Ok",
                  packet |-> [header |-> h.header,
                              payload |-> SubSeq(data, HEADER_SIZE + 1, payload_end)],
                  consumed |-> payload_end + CRC_SIZE]
\* Packet::parse.  total_size is a usize: a payload_length of 2^31 or more (a
\* negative integer here) exceeds the length of every buffer
Packet_parse(data) ==
    LET h == PacketHeader_parse(data)
    IN  IF h.res # "Ok" THEN [res |-> h.res]
        ELSE IF \/ h.header.payload_length < 0
                \/ Len(data) - HEADER_SIZE - CRC_SIZE < h.header.payload_length
        THEN [res |-> "BufferTooShort"]
        ELSE LET payload_end == HEADER_SIZE + h.header.payload_length
                 payload == SubSeq(data, HEADER_SIZE + 1, payload_end)
                 expected_crc == get_u32_le(data, payload_end)
                 actual_crc == crc32c(SubSeq(data, 1, payload_end))
             IN  IF expected_crc # actual_crc THEN [res |-> "ChecksumMismatch"]
                 ELSE [res |-> "Ok", packet |-> [header |-> h.header, payload |-> payload],
                       consumed |-> payload_end + CRC_SIZE]

(***************************************************************************)
(* usb.rs: UsbTransport::send / recv on one endpoint.  `io` is what the    *)
(* bulk transfer does: "ok", "err" (I/O error) or "timeout" (nothing       *)
(* arrived in time)                                                        *)
(***************************************************************************)
usb_send(connected, io) ==
    IF ~connected THEN [res |-> "Disconnected", connected |-> FALSE, fault |-> 0]
    ELSE IF io = "err" THEN [res |-> "UsbError", connected |-> FALSE, fault |-> 1]
    ELSE [res |-> "Ok", connected |-> TRUE, fault |-> 0]

\* mutant: the newest buffer on the wire is delivered first
usb_recv_lifo(connected, wire, io) ==
    IF ~connected
    THEN [res |-> "Disconnected", connected |-> FALSE, wire |-> wire, fault |-> 0]
    ELSE IF io = "err"
    THEN [res |-> "UsbError", connected |-> FALSE, wire |-> wire, fault |-> 1]
    ELSE IF io = "timeout"
    THEN [res |-> "Timeout", connected |-> TRUE, wire |-> wire, fault |-> 0]
    ELSE [res |-> "Ok", data |-> wire[Len(wire)], connected |-> TRUE,
          wire |-> SubSeq(wire, 1, Len(wire) - 1), fault |-> 0]
usb_recv(connected, wire, io) ==
    IF ~connected
    THEN [res |-> "Disconnected", connected |-> FALSE, wire |-> wire, fault |-> 0]
    ELSE IF io = "err"
    THEN [res |-> "UsbError", connected |-> FALSE, wire |-> wire, fault |-> 1]
    ELSE IF io = "timeout"
    THEN [res |-> "Timeout", connected |-> TRUE, wire |-> wire, fault |-> 0]
    ELSE [res |-> "Ok", data |-> Head(wire), connected |-> TRUE, wire |-> Tail(wire),
          fault |-> 0]

\* mock.rs: MockTransport::send / recv on an endpoint of a pair whose other
\* endpoint was dropped without close(): the flag test comes first; the
\* channel then reports that its other half is gone, once the buffers
\* still in it have been received
mock_send_gone(connected) ==
    IF ~connected THEN [res |-> "Disconnected", connected |-> FALSE, fault |-> 0]
    ELSE [res |-> "ChannelClosed", connected |-> TRUE, fault |-> 0]

mock_recv_gone(connected, wire) ==
    IF ~connected
    THEN [res |-> "Disconnected", connected |-> FALSE, wire |-> wire, fault |-> 0]
    ELSE IF wire = <<>>
    THEN [res |-> "ChannelClosed", connected |-> TRUE, wire |-> wire, fault |-> 0]
    ELSE [res |-> "Ok", data |-> Head(wire), connected |-> TRUE, wire |-> Tail(wire),
          fault |-> 0]

\* transport.send / transport.recv of run_source<T> and run_sink<T>: T is
\* UsbTransport, or (io = "closed") a MockTransport whose peer is gone
transport_send(connected, io) ==
    IF io = "closed" THEN mock_send_gone(connected) ELSE usb_send(connected, io)

transport_recv(connected, wire, io) ==
    IF io = "closed" THEN mock_recv_gone(connected, wire)
    ELSE usb_recv(connected, wire, io)

\* receive_packet of both binaries: transport.recv()? then Packet::parse(&data)?
receive_packet(connected, wire, io) ==
    LET r == transport_recv(connected, wire, io)
    IN  IF r.res # "Ok" THEN r
        ELSE IF r.data.type \notin PacketTypes
        THEN [res |-> "ParseError", connected |-> r.connected, wire |-> r.wire, fault |-> 0]
        ELSE [res |-> "Ok", packet |-> r.data, connected |-> r.connected,
              wire |-> r.wire, fault |-> 0]

\* mutant: a receive with nothing to receive never returns
IoRecvChoices_no_timeout(connected, wire) ==
    IF peerGone THEN {"closed"}
    ELSE IF ~connected \/ wire # <<>> THEN {"ok"}
    ELSE IF faults < MaxFaults THEN {"err"} ELSE {}
\* what a transfer can do in the current state
IoSendChoices ==
    IF peerGone THEN {"closed"}
    ELSE {"ok"} \cup (IF faults < MaxFaults THEN {"err"} ELSE {})
IoRecvChoices(connected, wire) ==
    IF peerGone THEN {"closed"}
    ELSE IF ~connected THEN {"ok"}
    ELSE (IF wire # <<>> THEN {"ok"} ELSE {"timeout"})
         \cup (IF faults < MaxFaults THEN {"err"} ELSE {})

(***************************************************************************)
(* mock.rs: MockTransport.  Endpoint e of a pair holds the sender of       *)
(* channel sender[e], the receiver of channel receiver[e] and a pointer    *)
(* connected[e] to an AtomicBool cell                                      *)
(***************************************************************************)
\* mpsc::channel(64)
MOCK_CHANNEL_CAPACITY == 64

\* mutant: each endpoint of the pair gets a flag of its own
MockTransport_pair_unshared ==
    [sender |-> <<1, 2>>, receiver |-> <<2, 1>>, connected |-> <<1, 2>>]
\* mutant: each endpoint receives from the channel it sends into
MockTransport_pair_loopback ==
    [sender |-> <<1, 2>>, receiver |-> <<1, 2>>, connected |-> <<1, 1>>]
\* MockTransport::pair: transport1 = (tx1, rx2), transport2 = (tx2, rx1), and
\* one AtomicBool shared by both
MockTransport_pair ==
    [sender |-> <<1, 2>>, receiver |-> <<2, 1>>, connected |-> <<1, 1>>]

\* MockTransport::is_connected on endpoint e
mock_is_connected(e) == mockCells[MockTransport_pair.connected[e]]

\* MockTransport::send on endpoint e (the channel has room: the call returns)
mock_send(e, data) ==
    IF ~mock_is_connected(e) THEN [res |-> "Disconnected", chans |-> chans]
    ELSE [res |-> "Ok",
          chans |-> [chans EXCEPT ![MockTransport_pair.sender[e]] = Append(@, data)]]

\* MockTransport::recv on endpoint e: the flag test, then receiver.recv(),
\* which returns the oldest buffer or waits for one
mock_recv(e) ==
    LET c == MockTransport_pair.receiver[e]
    IN  IF ~mock_is_connected(e)
        THEN [res |-> "Disconnected", chans |-> chans]
        ELSE IF chans[c] = <<>> THEN [res |-> "Pending", chans |-> chans]
        ELSE [res |-> "Ok", data |-> Head(chans[c]),
              chans |-> [chans EXCEPT ![c] = Tail(@)]]

\* MockTransport::close on endpoint e
mock_close(e) == [mockCells EXCEPT ![MockTransport_pair.connected[e]] = FALSE]

\* a call that returned: the transport, endpoint and operation, the result,
\* whether the call began after the transport was disconnected, and whether
\* it performed I/O (a buffer moved, or a bulk transfer failed or timed out)
Call(tr, ep, op, res, after, io) ==
    [tr |-> tr, ep |-> ep, op |-> op, res |-> res, after |-> after, io |-> io]

NoCall == Call("none", 0, "none", "none", FALSE, FALSE)

(***************************************************************************)
(* Idle values of the three parts of the state                             *)
(***************************************************************************)
SegIdle == encoded = None /\ segments = <<>>

ReasmIdle ==
    /\ pending = None /\ panicked = FALSE /\ lastSeg = None /\ prevSeg = None
    /\ lastRet = None /\ prevPending = None /\ runSegs = <<>>
    /\ runFresh = TRUE /\ feeds = 0

SessionStart ==
    /\ srcPc = "Idle" /\ ackPc = "None" /\ srcConn = TRUE
    /\ credits = 0 /\ creditsWide = 0 /\ srcSeq = 0 /\ frame_count = 0
    /\ sendSegs = <<>>
    /\ snkPc = "Waiting" /\ snkConn = TRUE /\ snkSeq = 0 /\ snkFrameNumber = 0
    /\ toSink = <<>> /\ toSrc = <<>>
    /\ srcSent = <<>> /\ snkSent = <<>> /\ srcRcvd = {} /\ snkRcvd = {}
    /\ srcHs = <<>> /\ snkHs = <<>> /\ srcStartAck = None /\ snkCompleted = <<>>
    /\ snkWarned = {}
    /\ decrements = 0 /\ granted = 0 /\ injected = 0

SessionIdle ==
    SessionStart /\ faults = 0 /\ snkCredits = DEFAULT_CREDITS /\ frameBudget = 0

PktIdle ==
    /\ pktIn = None /\ pktBytes = <<>> /\ pktFlip = None /\ pktDamage = None
    /\ pktRes = Packet_parse(<<>>)

\* AppState::default / reset_stats: every counter is 0
StatIdle == frames_dropped = 0

\* a fresh MockTransport::pair() and a freshly opened UsbTransport whose
\* device holds two buffers
TransportIdle ==
    /\ mockCells = <<TRUE, TRUE>> /\ chans = <<<<>>, <<>>>> /\ mockBlocked = {}
    /\ mockSent = <<<<>>, <<>>>> /\ mockRcvd = <<<<>>, <<>>>> /\ mockDown = {}
    /\ usbConn = TRUE /\ usbWire = <<<<0, 1>>, <<0, 2>>>> /\ usbOut = 0
    /\ usbDown = FALSE
    /\ lastCall = NoCall /\ calls = 0

\* the placeholder buffer of run_source: vec![0u8; 1024]
EncIdle == encodedLen = PLACEHOLDER_LEN

\* AppState::default, no task spawned
AppIdle ==
    /\ is_receiving = FALSE /\ connection_status = "Disconnected"
    /\ transport_is_some = FALSE /\ recvLoops = <<>>

\* the session runs on UsbTransport
GoneIdle == peerGone = FALSE

\* AppState::default of the capture app, no command under way, no task spawned
CapIdle ==
    /\ is_streaming = FALSE /\ capture_stream_is_some = FALSE
    /\ startCalls = <<>> /\ stopTaking = FALSE /\ streamLoops = <<>>

UnitIdle ==
    PktIdle /\ StatIdle /\ TransportIdle /\ EncIdle /\ AppIdle /\ GoneIdle /\ CapIdle

\* what no action of the source touches, and what no action of the sink touches
srcFrame == <<snkPc, snkConn, snkSeq, snkCredits, snkFrameNumber, pending, panicked,
              snkSent, snkRcvd, snkHs, snkCompleted, snkWarned, injected, frameBudget, segVars, reasmHist,
              unitVars>>
snkFrame == <<srcVars, srcSent, srcRcvd, srcHs, srcStartAck, decrements, granted,
              injected, frameBudget, segVars, reasmHist, unitVars>>


(***************************************************************************)
(* Segmentation driver: into_segments applied to encoded frames            *)
(***************************************************************************)
\* buffer lengths around every segment boundary up to MaxSegs segments, and
\* the sizes the tests and scenarios name
FrameLens ==
    { n \in { k * MAX_SEGMENT_SIZE + d : k \in 0..MaxSegs, d \in {-1, 0, 1} } : n >= 0 }
    \cup {1000, 1024, 200000}

SegFrames ==
    { FrameOfBuffer(fnum, pts, pts, kf, fnum, len) :
        fnum \in {1, 5}, pts \in {1000, 16667}, kf \in BOOLEAN, len \in FrameLens }

InitSeg ==
    /\ SegIdle
    /\ ReasmIdle
    /\ SessionIdle
    /\ UnitIdle

Segment(f) ==
    /\ ~into_segments_panics(f)
    /\ encoded' = Some(f)
    /\ segments' = into_segments(f)
    /\ UNCHANGED <<reasmVars, sessionVars, unitVars>>

NextSeg == \E f \in SegFrames : Segment(f)

SpecSeg == InitSeg /\ [][NextSeg]_vars

(***************************************************************************)
(* Transport driver: send, recv and close calls in any order on the two    *)
(* endpoints of a MockTransport pair and on a UsbTransport                 *)
(***************************************************************************)
MaxCalls == 5
Endpoints == {1, 2}

InitTransport ==
    /\ SegIdle
    /\ ReasmIdle
    /\ SessionIdle
    /\ UnitIdle

notTransport == <<segVars, reasmVars, sessionVars, pktVars, statVars, encVars, appVars, capVars,
                  goneVars>>

\* endpoint e sends its next buffer, <<e, n>>
MockSend(e) ==
    LET data == <<e, Len(mockSent[e]) + 1>>
        r == mock_send(e, data)
    IN  /\ calls < MaxCalls
        /\ Len(chans[MockTransport_pair.sender[e]]) < MOCK_CHANNEL_CAPACITY
        /\ calls' = calls + 1
        /\ chans' = r.chans
        /\ mockSent' = IF r.res = "Ok" THEN [mockSent EXCEPT ![e] = Append(@, data)]
                       ELSE mockSent
        /\ lastCall' = Call("mock", e, "send", r.res, mockDown # {}, r.chans # chans)
        /\ UNCHANGED <<mockCells, mockBlocked, mockRcvd, mockDown, usbVars, notTransport>>

\* endpoint e calls recv(): it returns at once or starts waiting
MockRecv(e) ==
    LET r == mock_recv(e)
    IN  /\ calls < MaxCalls
        /\ e \notin mockBlocked
        /\ calls' = calls + 1
        /\ chans' = r.chans
        /\ mockBlocked' = IF r.res = "Pending" THEN mockBlocked \cup {e} ELSE mockBlocked
        /\ mockRcvd' = IF r.res = "Ok" THEN [mockRcvd EXCEPT ![e] = Append(@, r.data)]
                       ELSE mockRcvd
        /\ lastCall' = IF r.res = "Pending" THEN lastCall
                       ELSE Call("mock", e, "recv", r.res, mockDown # {},
                                 r.chans # chans)
        /\ UNCHANGED <<mockCells, mockSent, mockDown, usbVars, notTransport>>

\* a buffer arrives for the recv() that endpoint e is waiting in; that call
\* began while the pair was connected
MockRecvWake(e) ==
    LET c == MockTransport_pair.receiver[e]
    IN  /\ e \in mockBlocked
        /\ chans[c] # <<>>
        /\ mockBlocked' = mockBlocked \ {e}
        /\ chans' = [chans EXCEPT ![c] = Tail(@)]
        /\ mockRcvd' = [mockRcvd EXCEPT ![e] = Append(@, Head(chans[c]))]
        /\ lastCall' = Call("mock", e, "recv", "Ok", FALSE, TRUE)
        /\ UNCHANGED <<mockCells, mockSent, mockDown, calls, usbVars, notTransport>>

MockClose(e) ==
    /\ calls < MaxCalls
    /\ calls' = calls + 1
    /\ mockCells' = mock_close(e)
    /\ mockDown' = mockDown \cup {e}
    /\ lastCall' = Call("mock", e, "close", "Ok", mockDown # {}, FALSE)
    /\ UNCHANGED <<chans, mockBlocked, mockSent, mockRcvd, usbVars, notTransport>>

\* UsbTransport::send; io is what bulk_out does
UsbSend(io) ==
    LET r == usb_send(usbConn, io)
    IN  /\ calls < MaxCalls
        /\ calls' = calls + 1
        /\ usbConn' = r.connected
        /\ usbOut' = IF r.res = "Ok" THEN usbOut + 1 ELSE usbOut
        /\ usbDown' = (usbDown \/ r.res = "UsbError")
        /\ lastCall' = Call("usb", 0, "send", r.res, usbDown,
                            usbOut' # usbOut \/ r.fault = 1)
        /\ UNCHANGED <<usbWire, mockVars, notTransport>>

\* UsbTransport::recv; io is what bulk_in does within TIMEOUT_MS
UsbRecv(io) ==
    LET r == usb_recv(usbConn, usbWire, io)
    IN  /\ calls < MaxCalls
        /\ io = "ok" => (~usbConn \/ usbWire # <<>>)
        /\ calls' = calls + 1
        /\ usbConn' = r.connected
        /\ usbWire' = r.wire
        /\ usbDown' = (usbDown \/ r.res = "UsbError")
        /\ lastCall' = Call("usb", 0, "recv", r.res, usbDown,
                            r.wire # usbWire \/ r.fault = 1 \/ r.res = "Timeout")
        /\ UNCHANGED <<usbOut, mockVars, notTransport>>

\* UsbTransport::close
UsbClose ==
    /\ calls < MaxCalls
    /\ calls' = calls + 1
    /\ usbConn' = FALSE
    /\ usbDown' = TRUE
    /\ lastCall' = Call("usb", 0, "close", "Ok", usbDown, FALSE)
    /\ UNCHANGED <<usbWire, usbOut, mockVars, notTransport>>

NextTransport ==
    \/ \E e \in Endpoints : MockSend(e) \/ MockRecv(e) \/ MockRecvWake(e) \/ MockClose(e)
    \/ \E io \in {"ok", "err"} : UsbSend(io)
    \/ \E io \in {"ok", "err", "timeout"} : UsbRecv(io)
    \/ UsbClose

SpecTransport == InitTransport /\ [][NextTransport]_vars

(***************************************************************************)
(* Packet codec driver: packets serialized by Packet::to_bytes, the buffer *)
(* handed to Packet::parse as it is or with one byte altered               *)
(***************************************************************************)
\* longest payload built from PktBytes
MaxPayloadLen == 1
PktBytes == {0, 255}
PktFlags == {258}
\* 0xFFFFFFFF is the integer -1
PktSequences == {42, 0 - 1}

RECURSIVE ByteSeqs(_)
ByteSeqs(n) ==
    IF n = 0 THEN {<<>>}
    ELSE LET s == ByteSeqs(n - 1)
         IN  s \cup { Append(x, b) : x \in { y \in s : Len(y) = n - 1 }, b \in PktBytes }

\* the four bytes that are the CRC32C of the same packet with no payload
CrcOfEmpty(packet_type, flags, sequence) ==
    put_u32_le(crc32c(PacketHeader_to_bytes(PacketHeader(packet_type, flags, sequence, 0))))

\* the payloads tried: the short ones, b"test" of test_packet_roundtrip, and
\* CrcOfEmpty
PktPayloads(packet_type, flags, sequence) ==
    ByteSeqs(MaxPayloadLen)
    \cup {<<116, 101, 115, 116>>, CrcOfEmpty(packet_type, flags, sequence)}

PktPackets ==
    UNION { { Packet_new(t, f, s, pl) : pl \in PktPayloads(t, f, s) } :
              t \in PacketTypes, f \in PktFlags, s \in PktSequences }

\* one bit flipped, or the whole byte inverted (bytes[i] ^= 0xFF)
PktMasks == {1, 2, 4, 8, 16, 32, 64, 128, 255}

InitPkt ==
    /\ SegIdle
    /\ ReasmIdle
    /\ SessionIdle
    /\ UnitIdle

\* let bytes = p.to_bytes(); Packet::parse(&bytes)
RoundTrip(p) ==
    /\ pktIn = None
    /\ pktIn' = Some(p)
    /\ pktBytes' = Packet_to_bytes(p)
    /\ pktFlip' = None
    /\ pktRes' = Packet_parse(pktBytes')
    /\ pktDamage' = None
    /\ UNCHANGED <<segVars, reasmVars, sessionVars, statVars, transportVars, encVars,
                   appVars, capVars, goneVars>>

\* bytes[i] ^= mask on the serialized packet, then Packet::parse(&bytes)
Corrupt(i, mask) ==
    LET bytes == [pktBytes EXCEPT ![i] = xor_u8(@, mask)]
    IN  /\ pktIn # None
        /\ pktFlip = None
        /\ pktFlip' = <<i, mask>>
        /\ pktBytes' = bytes
        /\ pktRes' = Packet_parse(bytes)
        /\ UNCHANGED <<pktIn, pktDamage, segVars, reasmVars, sessionVars, statVars, transportVars,
                       encVars, appVars, capVars, goneVars>>

NextPkt ==
    \/ \E p \in PktPackets : RoundTrip(p)
    \/ \E i \in 1..Len(pktBytes), mask \in PktMasks : Corrupt(i, mask)

SpecPkt == InitPkt /\ [][NextPkt]_vars

(***************************************************************************)
(* Packet::parse on a buffer that fails several of its checks at once: a   *)
(* serialized packet with any set of its fields damaged, whole or cut      *)
(***************************************************************************)
\* the fields that can be damaged, each so that exactly its own check fails
\* (a damaged header field also changes the bytes the CRC covers)
DamageFields == {"magic", "version", "type", "length", "crc"}

\* "none": the whole buffer; "header": cut inside the header; "tail": the
\* last byte is missing
DamageCuts == {"none", "header", "tail"}

\* the bytes of Packet::to_bytes with the fields of `fields` overwritten
damage_fields(bytes, fields) ==
    [i \in 1..Len(bytes) |->
        IF i = 1 /\ "magic" \in fields THEN xor_u8(bytes[i], 255)
        ELSE IF i = 5 /\ "version" \in fields THEN PROTOCOL_VERSION + 1
        ELSE IF i = 6 /\ "type" \in fields THEN 238
        ELSE IF i = 15 /\ "length" \in fields THEN 1
        ELSE IF i = Len(bytes) - 3 /\ "crc" \in fields THEN xor_u8(bytes[i], 255)
        ELSE bytes[i]]

damage_cut(bytes, cut) ==
    CASE cut = "none" -> bytes
      [] cut = "header" -> SubSeq(bytes, 1, HEADER_SIZE - 6)
      [] cut = "tail" -> SubSeq(bytes, 1, Len(bytes) - 1)

\* let bytes = p.to_bytes(); damage it; Packet::parse(&bytes)
ParseDamaged(p, fields, cut) ==
    LET bytes == damage_cut(damage_fields(Packet_to_bytes(p), fields), cut)
    IN  /\ pktIn = None
        /\ pktIn' = Some(p)
        /\ pktBytes' = bytes
        /\ pktDamage' = Some([fields |-> fields, cut |-> cut])
        /\ pktRes' = Packet_parse(bytes)
        /\ UNCHANGED <<pktFlip, segVars, reasmVars, sessionVars, statVars, transportVars,
                       encVars, appVars, capVars, goneVars>>

\* the packets damaged: every type, empty and with b"test" of
\* test_packet_roundtrip as payload
ParsePackets ==
    { Packet_new(t, f, 42, pl) : t \in PacketTypes, f \in PktFlags,
                                  pl \in {<<>>, <<116, 101, 115, 116>>} }

NextParse ==
    \E p \in ParsePackets, fields \in SUBSET DamageFields, cut \in DamageCuts :
        ParseDamaged(p, fields, cut)

SpecParse == InitPkt /\ [][NextParse]_vars

(***************************************************************************)
(* Reassembly driver: segments produced by into_segments, fed in any order *)
(***************************************************************************)
\* frame 5: 200000 bytes (4 segments); frame 6: 65537 bytes (2 segments);
\* frame 7: 1024 bytes (1 segment)
PoolFrames ==
    { FrameOfBuffer(5, 1000, 1001, TRUE, 5, 200000),
      FrameOfBuffer(6, 2000, 2001, FALSE, 6, 65537),
      FrameOfBuffer(7, 3000, 3001, FALSE, 7, 1024) }

SeqRange(s) == { s[i] : i \in 1..Len(s) }

SegmentPool == UNION { SeqRange(into_segments(f)) : f \in PoolFrames }

PoolFrame(frame_number) == CHOOSE f \in PoolFrames : f.metadata.frame_number = frame_number

InitReasm ==
    /\ SegIdle
    /\ ReasmIdle
    /\ SessionIdle
    /\ UnitIdle

\* one call reassembler.add_segment(&header, data) with the segment s
Feed(s) ==
    LET r == add_segment(pending, HeaderOf(s), s.data)
        newFrame == pending = None \/ pending[1].frame_number # s.metadata.frame_number
    IN  /\ feeds < MaxFeeds
        /\ ~panicked
        /\ feeds' = feeds + 1
        /\ pending' = r.pending
        /\ panicked' = r.panic
        /\ lastRet' = r.ret
        /\ prevSeg' = lastSeg
        /\ lastSeg' = Some(s)
        /\ prevPending' = pending
        /\ runSegs' = IF newFrame THEN <<s>> ELSE Append(runSegs, s)
        /\ runFresh' = IF newFrame THEN (pending = None) ELSE runFresh
        /\ UNCHANGED <<segVars, sessionVars, unitVars>>

NextReasm == \E s \in SegmentPool : Feed(s)

SpecReasm == InitReasm /\ [][NextReasm]_vars

(***************************************************************************)
(* Reassembly of what a peer can send: the sink hands add_segment every    *)
(* FRAME payload whose header FrameHeader::parse accepts (segment_count    *)
(* >= 1, segment_index < segment_count), whatever else the header says     *)
(***************************************************************************)
\* a last segment of frame 5 that counts 6 segments where into_segments made
\* 4, and a one-segment frame 8 whose header says 1024 bytes and whose data
\* is 1000 bytes long
CraftedSegments ==
    { FrameSegment(FrameMetadata(5, 1000, 1001, TRUE), 200000, 5, 6,
                   Slice(5, 5 * MAX_SEGMENT_SIZE, 5 * MAX_SEGMENT_SIZE + 1)),
      FrameSegment(FrameMetadata(8, 4000, 4001, FALSE), 1024, 0, 1,
                   Slice(8, 0, 1000)) }

PeerSegments ==
    SeqRange(into_segments(PoolFrame(5))) \cup SeqRange(into_segments(PoolFrame(7)))
    \cup CraftedSegments

NextPeerFrames == \E s \in PeerSegments : Feed(s)

SpecPeerFrames == InitReasm /\ [][NextPeerFrames]_vars

(***************************************************************************)
(* serialwarp-source: run_source                                           *)
(***************************************************************************)
\* mutant: the handshake accepts a packet of any type
src_expects_any(packet, packet_type) == TRUE
\* `if ack.packet_type() != PacketType::X { bail!(..) }` of the source handshake
src_expects(packet, packet_type) == packet.type = packet_type

\* payload length of a well-formed packet of each type
payload_length(packet) ==
    CASE packet.type \in {"Hello", "HelloAck"} -> 28
      [] packet.type = "Start" -> 24
      [] packet.type = "StartAck" -> 4
      [] packet.type = "Frame" ->
            IF "header" \in DOMAIN packet.payload
            THEN FRAME_HEADER_SIZE + ByteLen(packet.payload.data)
            ELSE packet.payload.truncated
      [] packet.type \in {"FrameAck", "Pong"} -> 16
      [] packet.type = "Ping" -> 8
      [] OTHER -> 0

\* XxxPayload::parse succeeds: the payload is at least SIZE bytes long
payload_parse_ok(packet, size) == payload_length(packet) >= size

\* mutant: the producer does not wait for a credit
has_credit_always(c) == TRUE
\* the producer's wait `while credits.load(SeqCst) == 0 { sleep }` is over
has_credit(c) == ~(c = 0)

\* AtomicU16::fetch_add / fetch_sub: the new value, wrapping modulo 2^16
fetch_add(c, n) == (c + n) % (U16_MAX + 1)
\* mutant: the decrement after a frame is lost
fetch_sub_lost(c, n) == c
fetch_sub(c, n) == (c - n) % (U16_MAX + 1)

\* mutant: a START_ACK of any status is taken as OK
start_ack_always_ok(p) == TRUE
\* `if !start_ack_payload.is_ok() { bail!(..) }`
start_ack_ok(p) == is_ok(p)

\* Step 1: send HELLO
SrcSendHello ==
    \E io \in IoSendChoices :
        LET hello == Packet("Hello", 0, srcSeq,
                            HelloPayload(1, ARGS_WIDTH, ARGS_HEIGHT, ARGS_FPS, 0))
            s == transport_send(srcConn, io)
        IN  /\ srcPc = "Idle"
            /\ srcSeq' = srcSeq + 1
            /\ srcConn' = s.connected
            /\ faults' = faults + s.fault
            /\ toSink' = IF s.res = "Ok" THEN Append(toSink, hello) ELSE toSink
            /\ srcSent' = IF s.res = "Ok" THEN Append(srcSent, hello) ELSE srcSent
            /\ srcPc' = IF s.res = "Ok" THEN "HelloSent" ELSE "Failed"
            /\ UNCHANGED <<ackPc, credits, creditsWide, frame_count, sendSegs, toSrc,
                           srcRcvd, srcHs, srcStartAck, decrements, granted>>
            /\ UNCHANGED srcFrame

\* Steps 2 and 3: receive HELLO_ACK, negotiate, send START
SrcRecvHelloAck ==
    \E ioR \in IoRecvChoices(srcConn, toSrc), ioS \in IoSendChoices :
        LET r == receive_packet(srcConn, toSrc, ioR)
            accepted == /\ r.res = "Ok"
                        /\ src_expects(r.packet, "HelloAck")
                        /\ payload_parse_ok(r.packet, 28)
            ack_payload == r.packet.payload
            width == Min(ARGS_WIDTH, ack_payload.max_width)
            height == Min(ARGS_HEIGHT, ack_payload.max_height)
            fps == Min(ARGS_FPS, max_fps(ack_payload))
            start == Packet("Start", 0, srcSeq,
                            StartPayload(width, height, fps, ARGS_BITRATE_MBPS * 1000000))
            s == transport_send(r.connected, ioS)
            sent == accepted /\ s.res = "Ok"
        IN  /\ srcPc = "HelloSent"
            /\ ioS = "err" => (r.res = "Ok" /\ accepted)
            /\ toSrc' = r.wire
            /\ srcRcvd' = IF r.res = "Ok" THEN srcRcvd \cup {r.packet.type} ELSE srcRcvd
            /\ srcHs' = IF r.res = "Ok" THEN Append(srcHs, r.packet.type) ELSE srcHs
            /\ srcSeq' = IF accepted THEN srcSeq + 1 ELSE srcSeq
            /\ srcConn' = IF accepted THEN s.connected ELSE r.connected
            /\ faults' = faults + r.fault + (IF accepted THEN s.fault ELSE 0)
            /\ toSink' = IF sent THEN Append(toSink, start) ELSE toSink
            /\ srcSent' = IF sent THEN Append(srcSent, start) ELSE srcSent
            /\ srcPc' = IF sent THEN "StartSent" ELSE "Failed"
            /\ UNCHANGED <<ackPc, credits, creditsWide, frame_count, sendSegs,
                           srcStartAck, decrements, granted>>
            /\ UNCHANGED srcFrame

\* Steps 4 to 7: receive START_ACK, create the capture stream and the encoder
\* (setupOk: both were created), seed the credit counter, spawn the ACK task
SrcRecvStartAck ==
    \E ioR \in IoRecvChoices(srcConn, toSrc), setupOk \in BOOLEAN :
        LET r == receive_packet(srcConn, toSrc, ioR)
            typed == /\ r.res = "Ok"
                     /\ src_expects(r.packet, "StartAck")
                     /\ payload_parse_ok(r.packet, 4)
            start_ack_payload == StartAckPayload_parse(r.packet)
            accepted == typed /\ start_ack_ok(start_ack_payload)
            initial_credits == start_ack_payload.initial_credits
            streaming == accepted /\ setupOk
        IN  /\ srcPc = "StartSent"
            /\ ~setupOk => accepted
            /\ toSrc' = r.wire
            /\ srcRcvd' = IF r.res = "Ok" THEN srcRcvd \cup {r.packet.type} ELSE srcRcvd
            /\ srcHs' = IF r.res = "Ok" THEN Append(srcHs, r.packet.type) ELSE srcHs
            /\ srcStartAck' = IF typed THEN Some(start_ack_payload) ELSE srcStartAck
            /\ srcConn' = r.connected
            /\ faults' = faults + r.fault
            /\ credits' = IF streaming THEN initial_credits ELSE credits
            /\ creditsWide' = IF streaming THEN initial_credits ELSE creditsWide
            /\ ackPc' = IF streaming THEN "Running" ELSE ackPc
            /\ srcPc' = IF streaming THEN "Streaming" ELSE "Failed"
            /\ UNCHANGED <<srcSeq, frame_count, sendSegs, toSink, srcSent,
                           decrements, granted>>
            /\ UNCHANGED srcFrame

\* Step 8, top of the loop: `while transport.is_connected()`, the credit wait,
\* and the connection test after it
SrcWaitCredits ==
    /\ srcPc = "Streaming"
    /\ srcConn => has_credit(credits)
    /\ srcPc' = IF srcConn THEN "Capture" ELSE "Stopping"
    /\ UNCHANGED <<ackPc, srcConn, credits, creditsWide, srcSeq, frame_count, sendSegs,
                   toSink, toSrc, srcSent, srcRcvd, srcHs, srcStartAck, decrements,
                   granted, faults>>
    /\ UNCHANGED srcFrame

\* capture.next_frame(), encoder.encode_raw(), EncodedFrame::new, into_segments.
\* outcome: "end" (the capture stream ended), "encode_err", or "frame"
SrcCapture ==
    \E outcome \in {"end", "encode_err", "frame"} :
        LET metadata == FrameMetadata(frame_count, (frame_count + 1) * FRAME_INTERVAL_US,
                                      (frame_count + 1) * FRAME_INTERVAL_US,
                                      frame_count % 30 = 0)
            frame == EncodedFrame(metadata, Slice(0, 0, encodedLen))
        IN  /\ srcPc = "Capture"
            /\ outcome # "end" => frame_count < frameBudget
            /\ frame_count' = IF outcome = "end" THEN frame_count ELSE frame_count + 1
            /\ sendSegs' = IF outcome = "frame" THEN into_segments(frame) ELSE sendSegs
            /\ srcPc' = CASE outcome = "end" -> "Stopping"
                          [] outcome = "encode_err" -> "Streaming"
                          [] outcome = "frame" -> "Sending"
            /\ UNCHANGED <<ackPc, srcConn, credits, creditsWide, srcSeq, toSink, toSrc,
                           srcSent, srcRcvd, srcHs, srcStartAck, decrements, granted,
                           faults>>
            /\ UNCHANGED srcFrame

\* one pass of `for segment in segments`: send one FRAME packet; a send error
\* leaves the for loop
SrcSendSegment ==
    \E io \in IoSendChoices :
        LET segment == Head(sendSegs)
            packet == Packet("Frame", 0, srcSeq, to_payload(segment))
            s == transport_send(srcConn, io)
            rest == IF s.res = "Ok" THEN Tail(sendSegs) ELSE <<>>
        IN  /\ srcPc = "Sending"
            /\ sendSegs # <<>>
            /\ srcSeq' = srcSeq + 1
            /\ srcConn' = s.connected
            /\ faults' = faults + s.fault
            /\ toSink' = IF s.res = "Ok" THEN Append(toSink, packet) ELSE toSink
            /\ srcSent' = IF s.res = "Ok" THEN Append(srcSent, packet) ELSE srcSent
            /\ sendSegs' = rest
            /\ srcPc' = IF rest = <<>> THEN "Decrement" ELSE "Sending"
            /\ UNCHANGED <<ackPc, credits, creditsWide, frame_count, toSrc, srcRcvd,
                           srcHs, srcStartAck, decrements, granted>>
            /\ UNCHANGED srcFrame

\* credits.fetch_sub(1, SeqCst) after the for loop
SrcDecrement ==
    /\ srcPc = "Decrement"
    /\ credits' = fetch_sub(credits, 1)
    /\ creditsWide' = credits - 1
    /\ decrements' = decrements + 1
    /\ srcPc' = "Streaming"
    /\ UNCHANGED <<ackPc, srcConn, srcSeq, frame_count, sendSegs, toSink, toSrc,
                   srcSent, srcRcvd, srcHs, srcStartAck, granted, faults>>
    /\ UNCHANGED srcFrame

\* Shutdown: send STOP, the result of the send is ignored
SrcSendStop ==
    \E io \in IoSendChoices :
        LET stop == Packet("Stop", 0, srcSeq, <<>>)
            s == transport_send(srcConn, io)
        IN  /\ srcPc = "Stopping"
            /\ srcConn' = s.connected
            /\ faults' = faults + s.fault
            /\ toSink' = IF s.res = "Ok" THEN Append(toSink, stop) ELSE toSink
            /\ srcSent' = IF s.res = "Ok" THEN Append(srcSent, stop) ELSE srcSent
            /\ srcPc' = "StopWait"
            /\ UNCHANGED <<ackPc, credits, creditsWide, srcSeq, frame_count, sendSegs,
                           toSrc, srcRcvd, srcHs, srcStartAck, decrements, granted>>
            /\ UNCHANGED srcFrame

\* wait up to 1 s for one packet (STOP_ACK or not), then transport.close()
SrcStopWait ==
    \E io \in IoRecvChoices(srcConn, toSrc) :
        LET r == receive_packet(srcConn, toSrc, io)
        IN  /\ srcPc = "StopWait"
            /\ toSrc' = r.wire
            /\ srcRcvd' = IF r.res = "Ok" THEN srcRcvd \cup {r.packet.type} ELSE srcRcvd
            /\ faults' = faults + r.fault
            /\ srcConn' = FALSE
            /\ srcPc' = "Closed"
            /\ UNCHANGED <<ackPc, credits, creditsWide, srcSeq, frame_count, sendSegs,
                           toSink, srcSent, srcHs, srcStartAck, decrements, granted>>
            /\ UNCHANGED srcFrame

\* one iteration of the ACK receiver task that changes state (a receive that
\* only times out loops without effect)
AckRecv ==
    \E io \in IoRecvChoices(srcConn, toSrc) \ {"timeout"} :
        LET r == receive_packet(srcConn, toSrc, io)
            isAck == r.res = "Ok" /\ r.packet.type = "FrameAck"
                     /\ payload_parse_ok(r.packet, 16)
            returned == r.packet.payload.credits_returned
            stop == r.res = "Ok" /\ r.packet.type = "Stop"
        IN  /\ ackPc = "Running"
            /\ toSrc' = r.wire
            /\ srcRcvd' = IF r.res = "Ok" THEN srcRcvd \cup {r.packet.type} ELSE srcRcvd
            /\ srcConn' = r.connected
            /\ faults' = faults + r.fault
            /\ credits' = IF isAck THEN fetch_add(credits, returned) ELSE credits
            /\ creditsWide' = IF isAck THEN credits + returned ELSE creditsWide
            /\ granted' = IF isAck THEN granted + returned ELSE granted
            /\ ackPc' = IF stop \/ ~r.connected THEN "Done" ELSE "Running"
            /\ UNCHANGED <<srcPc, srcSeq, frame_count, sendSegs, toSink, srcSent, srcHs,
                           srcStartAck, decrements>>
            /\ UNCHANGED srcFrame

(***************************************************************************)
(* serialwarp-sink: run_sink                                               *)
(***************************************************************************)
\* mutant: the handshake accepts a packet of any type
snk_expects_any(packet, packet_type) == TRUE
\* `if hello.packet_type() != PacketType::X { bail!(..) }` of the sink handshake
snk_expects(packet, packet_type) == packet.type = packet_type

\* Steps 1 and 2: receive HELLO, send HELLO_ACK
SnkRecvHello ==
    \E ioR \in IoRecvChoices(snkConn, toSink), ioS \in IoSendChoices :
        LET r == receive_packet(snkConn, toSink, ioR)
            accepted == /\ r.res = "Ok"
                        /\ snk_expects(r.packet, "Hello")
                        /\ payload_parse_ok(r.packet, 28)
            ack == Packet("HelloAck", 0, snkSeq,
                          HelloPayload(1, SINK_MAX_WIDTH, SINK_MAX_HEIGHT, SINK_MAX_FPS, 3))
            s == transport_send(r.connected, ioS)
            sent == accepted /\ s.res = "Ok"
        IN  /\ snkPc = "Waiting"
            /\ ioS = "err" => accepted
            /\ toSink' = r.wire
            /\ snkRcvd' = IF r.res = "Ok" THEN snkRcvd \cup {r.packet.type} ELSE snkRcvd
            /\ snkHs' = IF r.res = "Ok" THEN Append(snkHs, r.packet.type) ELSE snkHs
            /\ snkSeq' = IF accepted THEN snkSeq + 1 ELSE snkSeq
            /\ snkConn' = IF accepted THEN s.connected ELSE r.connected
            /\ faults' = faults + r.fault + (IF accepted THEN s.fault ELSE 0)
            /\ toSrc' = IF sent THEN Append(toSrc, ack) ELSE toSrc
            /\ snkSent' = IF sent THEN Append(snkSent, ack) ELSE snkSent
            /\ snkPc' = IF sent THEN "HelloAcked" ELSE "Failed"
            /\ UNCHANGED <<snkCredits, snkFrameNumber, pending, panicked, snkCompleted,
                           snkWarned>>
            /\ UNCHANGED snkFrame

\* Steps 3 to 6: receive START, send START_ACK, then create the decoder and
\* the renderer (setupOk: both were created)
SnkRecvStart ==
    \E ioR \in IoRecvChoices(snkConn, toSink), ioS \in IoSendChoices,
       setupOk \in BOOLEAN :
        LET r == receive_packet(snkConn, toSink, ioR)
            accepted == /\ r.res = "Ok"
                        /\ snk_expects(r.packet, "Start")
                        /\ payload_parse_ok(r.packet, 24)
                        /\ StartPayload_parse_ok(StartPayload_parse(r.packet))
            start_ack == Packet("StartAck", 0, snkSeq, StartAckPayload_ok(snkCredits))
            s == transport_send(r.connected, ioS)
            sent == accepted /\ s.res = "Ok"
        IN  /\ snkPc = "HelloAcked"
            /\ ioS = "err" => accepted
            /\ ~setupOk => sent
            /\ toSink' = r.wire
            /\ snkRcvd' = IF r.res = "Ok" THEN snkRcvd \cup {r.packet.type} ELSE snkRcvd
            /\ snkHs' = IF r.res = "Ok" THEN Append(snkHs, r.packet.type) ELSE snkHs
            /\ snkSeq' = IF accepted THEN snkSeq + 1 ELSE snkSeq
            /\ snkConn' = IF accepted THEN s.connected ELSE r.connected
            /\ faults' = faults + r.fault + (IF accepted THEN s.fault ELSE 0)
            /\ toSrc' = IF sent THEN Append(toSrc, start_ack) ELSE toSrc
            /\ snkSent' = IF sent THEN Append(snkSent, start_ack) ELSE snkSent
            /\ snkPc' = IF sent /\ setupOk THEN "Streaming" ELSE "Failed"
            /\ UNCHANGED <<snkCredits, snkFrameNumber, pending, panicked, snkCompleted,
                           snkWarned>>
            /\ UNCHANGED snkFrame

\* Step 7, `if !renderer.process_events() { break }`, then transport.close():
\* the user closes the window; nothing is sent
SnkQuit ==
    /\ snkPc = "Streaming"
    /\ snkPc' = "Closed"
    /\ snkConn' = FALSE
    /\ UNCHANGED <<snkSeq, snkCredits, snkFrameNumber, pending, panicked, toSink, toSrc,
                   snkSent, snkRcvd, snkHs, snkCompleted, snkWarned, faults>>
    /\ UNCHANGED snkFrame

\* the reply of the sink's main loop to one received packet: what it sends
\* (None or Some(packet)), where it goes next, and the reassembler afterwards.
\* decodeOk: decoder.decode returned Ok
sink_dispatch(packet, decodeOk) ==
    CASE packet.type = "Frame" ->
            IF payload_length(packet) < FRAME_HEADER_SIZE
            THEN [reply |-> None, pc |-> "Streaming", pend |-> pending, acked |-> FALSE,
                  complete |-> FALSE, warn |-> {"Frame payload too small"}]
            ELSE
            LET header == packet.payload.header
                res == add_segment(pending, header, packet.payload.data)
            IN  IF ~FrameHeader_parse_ok(header)
                THEN [reply |-> None, pc |-> "Failed", pend |-> pending, acked |-> FALSE,
                      complete |-> FALSE, warn |-> {}]
                ELSE IF res.panic
                THEN [reply |-> None, pc |-> "Panicked", pend |-> pending, acked |-> FALSE,
                      complete |-> FALSE, warn |-> {}]
                ELSE IF res.ret # None /\ decodeOk
                THEN [reply |-> Some(Packet("FrameAck", 0, snkSeq,
                                            FrameAckPayload(header.frame_number, 0, 1))),
                      pc |-> "Streaming", pend |-> res.pending, acked |-> TRUE,
                      complete |-> TRUE, warn |-> {}]
                ELSE [reply |-> None, pc |-> "Streaming", pend |-> res.pending,
                      acked |-> FALSE, complete |-> res.ret # None,
                      warn |-> IF res.ret # None THEN {"Decode error"} ELSE {}]
      [] packet.type = "Stop" ->
            [reply |-> Some(Packet("StopAck", 0, snkSeq, <<>>)), pc |-> "Closed",
             pend |-> pending, acked |-> FALSE, complete |-> FALSE, warn |-> {}]
      [] packet.type = "Ping" ->
            IF payload_parse_ok(packet, 8)
            THEN [reply |-> Some(Packet("Pong", 0, snkSeq,
                                        PongPayload(packet.payload.timestamp_us, 0))),
                  pc |-> "Streaming", pend |-> pending, acked |-> FALSE,
                  complete |-> FALSE, warn |-> {}]
            ELSE [reply |-> None, pc |-> "Failed", pend |-> pending, acked |-> FALSE,
                  complete |-> FALSE, warn |-> {}]
      [] OTHER ->
            [reply |-> None, pc |-> "Streaming", pend |-> pending, acked |-> FALSE,
             complete |-> FALSE, warn |-> {"Unexpected packet type"}]

\* mutant: any receive error ends the main loop
on_receive_error_fatal(connected) == IF connected THEN "Failed" ELSE "Closed"
\* the Ok(Err(e)) arm of the main loop: break when the transport is no longer
\* connected, else log the error and go on
on_receive_error(connected) == IF connected THEN "Streaming" ELSE "Closed"

\* one iteration of the main receive loop that changes state (the 10 ms
\* timeout loops without effect)
SnkRecv ==
    \E ioR \in IoRecvChoices(snkConn, toSink) \ {"timeout"}, ioS \in IoSendChoices,
       decodeOk \in BOOLEAN :
        LET r == receive_packet(snkConn, toSink, ioR)
            got == r.res = "Ok"
            d == IF got THEN sink_dispatch(r.packet, decodeOk)
                 ELSE [reply |-> None, pc |-> on_receive_error(r.connected),
                       pend |-> pending, acked |-> FALSE, complete |-> FALSE,
                       warn |-> IF r.connected THEN {"Receive error"} ELSE {}]
            replies == d.reply # None
            s == transport_send(r.connected, ioS)
            sent == replies /\ s.res = "Ok"
        IN  /\ snkPc = "Streaming"
            /\ ioS = "err" => replies
            /\ ~decodeOk => d.complete
            /\ snkCompleted' =
                  IF d.complete
                  THEN Append(snkCompleted,
                              [frame_number |-> r.packet.payload.header.frame_number,
                               decoded |-> decodeOk])
                  ELSE snkCompleted
            /\ snkWarned' = snkWarned \cup d.warn
            /\ toSink' = r.wire
            /\ snkRcvd' = IF got THEN snkRcvd \cup {r.packet.type} ELSE snkRcvd
            /\ pending' = d.pend
            /\ panicked' = (panicked \/ d.pc = "Panicked")
            /\ snkSeq' = IF replies /\ d.pc # "Closed" THEN snkSeq + 1 ELSE snkSeq
            /\ snkFrameNumber' = IF d.acked THEN snkFrameNumber + 1 ELSE snkFrameNumber
            /\ toSrc' = IF sent THEN Append(toSrc, d.reply[1]) ELSE toSrc
            /\ snkSent' = IF sent THEN Append(snkSent, d.reply[1]) ELSE snkSent
            /\ snkConn' = IF d.pc = "Closed" THEN FALSE
                          ELSE IF replies THEN s.connected ELSE r.connected
            /\ faults' = faults + r.fault + (IF replies THEN s.fault ELSE 0)
            /\ snkPc' = d.pc
            /\ UNCHANGED <<snkCredits, snkHs>>
            /\ UNCHANGED snkFrame

(***************************************************************************)
(* A peer that does not follow the protocol: well-formed packets of a type *)
(* the receiver may not expect, put on either direction of the link        *)
(***************************************************************************)
RogueToSink ==
    { Packet("HelloAck", 0, 0, HelloPayload(1, SINK_MAX_WIDTH, SINK_MAX_HEIGHT,
                                            SINK_MAX_FPS, 3)),
      Packet("Ping", 0, 0, PingPayload(0)),
      Packet("Stop", 0, 0, <<>>) }

RogueToSrc ==
    { Packet("Hello", 0, 0, HelloPayload(1, ARGS_WIDTH, ARGS_HEIGHT, ARGS_FPS, 0)),
      Packet("StartAck", 0, 0, StartAckPayload(1, DEFAULT_CREDITS)),
      Packet("FrameAck", 0, 0, FrameAckPayload(0, 0, U16_MAX + 1 - snkCredits)),
      Packet("Stop", 0, 0, <<>>) }

Inject ==
    /\ injected < MaxInject
    /\ injected' = injected + 1
    /\ \/ \E p \in RogueToSink : toSink' = Append(toSink, p) /\ toSrc' = toSrc
       \/ \E p \in RogueToSrc : toSrc' = Append(toSrc, p) /\ toSink' = toSink
    /\ UNCHANGED <<srcVars, snkVars, srcSent, snkSent, srcRcvd, snkRcvd, srcHs, snkHs,
                   srcStartAck, snkCompleted, snkWarned, decrements, granted, faults,
                   frameBudget, segVars, reasmVars, unitVars>>

(***************************************************************************)
(* A link that damages a packet in flight, and a source that sends a FRAME *)
(* packet whose payload is not a valid FrameHeader, both while the sink is *)
(* in its main loop                                                        *)
(***************************************************************************)
\* FRAME payloads that FrameHeader::parse or the length test refuses: 16
\* bytes only; segment_count == 0; segment_index >= segment_count
BadFrames ==
    { Packet("Frame", 0, 0, TruncatedPayload(16)),
      Packet("Frame", 0, 0, [header |-> FrameHeader(0, 0, 0, 0, 0, 0), data |-> <<>>]),
      Packet("Frame", 0, 0, [header |-> FrameHeader(0, 0, 0, 0, 1, 1), data |-> <<>>]) }

\* a byte of the i-th buffer in flight to the sink is inverted: its CRC no
\* longer matches
CorruptInFlight ==
    /\ snkPc = "Streaming"
    /\ injected < MaxInject
    /\ injected' = injected + 1
    /\ \E i \in 1..Len(toSink) :
          /\ toSink[i] # Garbage
          /\ toSink' = [toSink EXCEPT ![i] = Garbage]
    /\ UNCHANGED <<srcVars, snkVars, toSrc, srcSent, snkSent, srcRcvd, snkRcvd, srcHs,
                   snkHs, srcStartAck, snkCompleted, snkWarned, decrements, granted,
                   faults, frameBudget, segVars, reasmVars, unitVars>>

InjectBadFrame ==
    /\ snkPc = "Streaming"
    /\ injected < MaxInject
    /\ injected' = injected + 1
    /\ \E p \in BadFrames : toSink' = Append(toSink, p)
    /\ UNCHANGED <<srcVars, snkVars, toSrc, srcSent, snkSent, srcRcvd, snkRcvd, srcHs,
                   snkHs, srcStartAck, snkCompleted, snkWarned, decrements, granted,
                   faults, frameBudget, segVars, reasmVars, unitVars>>

(***************************************************************************)
(* The session: a source and a sink joined by one link                     *)
(***************************************************************************)
Init ==
    /\ SegIdle /\ ReasmIdle /\ SessionStart /\ UnitIdle
    /\ faults = 0
    /\ snkCredits \in CreditChoices /\ frameBudget = MaxFrames

Next ==
    \/ SrcSendHello \/ SrcRecvHelloAck \/ SrcRecvStartAck \/ SrcWaitCredits
    \/ SrcCapture \/ SrcSendSegment \/ SrcDecrement \/ SrcSendStop \/ SrcStopWait
    \/ AckRecv
    \/ SnkRecvHello \/ SnkRecvStart \/ SnkQuit \/ SnkRecv

Spec == Init /\ [][Next]_vars

NextRogue == Next \/ Inject

InitRogue ==
    /\ SegIdle /\ ReasmIdle /\ SessionStart /\ UnitIdle
    /\ faults = 0
    /\ snkCredits \in {2, DEFAULT_CREDITS} /\ frameBudget = MaxRogueFrames

SpecRogue == InitRogue /\ [][NextRogue]_vars

NextBad == Next \/ CorruptInFlight \/ InjectBadFrame

\* the bulk transfers themselves do not fail here (faults is at its bound):
\* I/O errors are the subject of Spec and SpecRogue
InitBad ==
    /\ SegIdle /\ ReasmIdle /\ SessionStart /\ UnitIdle
    /\ faults = MaxFaults
    /\ snkCredits \in {2, DEFAULT_CREDITS} /\ frameBudget = MaxRogueFrames + 1

SpecBad == InitBad /\ [][NextBad]_vars

(***************************************************************************)
(* The session on a link that stays up, with the scheduling the runtime    *)
(* gives: a task that can take a step without an I/O error eventually      *)
(* takes one.  Nothing obliges the user to quit (SnkQuit)                  *)
(***************************************************************************)
\* the sink is started with --credits 2; capture has more frames than that
InitLive ==
    /\ SegIdle /\ ReasmIdle /\ SessionStart /\ UnitIdle
    /\ faults = MaxFaults
    /\ snkCredits = 2 /\ frameBudget = MaxRogueFrames + 2

SourceStep ==
    \/ SrcSendHello \/ SrcRecvHelloAck \/ SrcRecvStartAck \/ SrcWaitCredits
    \/ SrcCapture \/ SrcSendSegment \/ SrcDecrement \/ SrcSendStop \/ SrcStopWait

SinkStep == SnkRecvHello \/ SnkRecvStart \/ SnkRecv

Fairness ==
    /\ WF_vars(SourceStep)
    /\ WF_vars(AckRecv)
    /\ WF_vars(SinkStep)

SpecLive == InitLive /\ [][Next]_vars /\ Fairness

(***************************************************************************)
(* The fairly scheduled session with a sink that follows the protocol of   *)
(* the specification on a local quit: it sends STOP to the streaming       *)
(* source.  The link stays up                                              *)
(***************************************************************************)
PeerStop ==
    /\ ackPc = "Running"
    /\ injected < MaxInject
    /\ injected' = injected + 1
    /\ toSrc' = Append(toSrc, Packet("Stop", 0, 0, <<>>))
    /\ UNCHANGED <<srcVars, snkVars, toSink, srcSent, snkSent, srcRcvd, snkRcvd, srcHs,
                   snkHs, srcStartAck, snkCompleted, snkWarned, decrements, granted,
                   faults, frameBudget, segVars, reasmVars, unitVars>>

NextPeerStop == Next \/ PeerStop

\* the sink grants 2 credits and capture has as many frames
InitPeerStop ==
    /\ SegIdle /\ ReasmIdle /\ SessionStart /\ UnitIdle
    /\ faults = MaxFaults
    /\ snkCredits = 2 /\ frameBudget = MaxRogueFrames + 1

SpecPeerStop == InitPeerStop /\ [][NextPeerStop]_vars /\ Fairness

(***************************************************************************)
(* The fairly scheduled source on a link that can fail: its main task      *)
(* takes a step whenever it can                                            *)
(***************************************************************************)
InitShutdown ==
    /\ SegIdle /\ ReasmIdle /\ SessionStart /\ UnitIdle
    /\ faults = 0
    /\ snkCredits = 2 /\ frameBudget = MaxRogueFrames

SpecShutdown == InitShutdown /\ [][Next]_vars /\ WF_vars(SourceStep)

(***************************************************************************)
(* The fairly scheduled session on a MockTransport::pair(), one endpoint   *)
(* of which can be dropped while both sides stream: the task that owns it  *)
(* ends without calling close(), so the shared `connected` flag stays set  *)
(* and both channels lose their other half                                 *)
(***************************************************************************)
PeerDrop ==
    /\ ~peerGone
    /\ snkPc = "Streaming" /\ ackPc = "Running"
    /\ srcPc \in {"Streaming", "Capture", "Sending", "Decrement"}
    /\ peerGone' = TRUE
    /\ \/ snkPc' = "Dropped" /\ UNCHANGED <<srcPc, ackPc>>
       \/ srcPc' = "Dropped" /\ ackPc' = "Done" /\ snkPc' = snkPc
    /\ UNCHANGED <<srcConn, credits, creditsWide, srcSeq, frame_count, sendSegs,
                   snkConn, snkSeq, snkCredits, snkFrameNumber, linkVars, histVars,
                   frameBudget, segVars, reasmVars, pktVars, statVars, transportVars,
                   encVars, appVars, capVars>>

NextGone == Next \/ PeerDrop

\* the transfers of a pair with both endpoints alive do not fail
InitGone ==
    /\ SegIdle /\ ReasmIdle /\ SessionStart /\ UnitIdle
    /\ faults = MaxFaults
    /\ snkCredits = 2 /\ frameBudget = MaxRogueFrames

SpecGone == InitGone /\ [][NextGone]_vars /\ Fairness

(***************************************************************************)
(* The display app (apps/display, commands.rs): the commands of the user   *)
(* in any order, and the receiving_loop tasks that start_display spawns    *)
(***************************************************************************)
\* start_display calls in one run
MaxStarts == 2

notApp == <<segVars, reasmVars, sessionVars, pktVars, transportVars, encVars, goneVars,
            capVars>>

\* the status every command computes from the transport slot
status_of(is_some) == IF is_some THEN "Connected" ELSE "Disconnected"

\* a stop reached every loop that has not ended
stop_loops(loops) ==
    [i \in 1..Len(loops) |->
        IF loops[i].pc = "Exited" THEN loops[i] ELSE [loops[i] EXCEPT !.stopped = TRUE]]

\* wait_for_connection: UsbTransport::open() succeeds or fails
WaitForConnection ==
    \E opened \in BOOLEAN :
        /\ transport_is_some' = (transport_is_some \/ opened)
        /\ connection_status' = IF opened THEN "Connected" ELSE "Error"
        /\ UNCHANGED <<is_receiving, recvLoops, frames_dropped, notApp>>

\* start_display: refused while is_receiving or when not Connected; else it
\* sets the flag, resets the statistics and spawns a receiving_loop
StartDisplay ==
    /\ Len(recvLoops) < MaxStarts
    /\ ~is_receiving
    /\ connection_status = "Connected"
    /\ is_receiving' = TRUE
    /\ frames_dropped' = 0
    /\ connection_status' = "Receiving"
    /\ recvLoops' = Append(recvLoops, [pc |-> "Create", stopped |-> FALSE])
    /\ UNCHANGED <<transport_is_some, notApp>>

\* stop_display
StopDisplay ==
    /\ is_receiving' = FALSE
    /\ connection_status' = status_of(transport_is_some)
    /\ recvLoops' = stop_loops(recvLoops)
    /\ UNCHANGED <<transport_is_some, frames_dropped, notApp>>

\* disconnect
DisplayDisconnect ==
    /\ is_receiving' = FALSE
    /\ transport_is_some' = FALSE
    /\ connection_status' = "Disconnected"
    /\ frames_dropped' = 0
    /\ recvLoops' = stop_loops(recvLoops)
    /\ UNCHANGED notApp

\* the blocking task of receiving_loop i returns; the async part of the
\* loop, which writes the status, runs when the runtime resumes it
loop_exit(i) ==
    /\ recvLoops' = [recvLoops EXCEPT ![i].pc = "Finish"]
    /\ UNCHANGED connection_status

\* receiving_loop i creates its decoder; without one it returns at once
LoopCreate(i) ==
    \E created \in BOOLEAN :
        /\ i \in DOMAIN recvLoops /\ recvLoops[i].pc = "Create"
        /\ IF created
           THEN recvLoops' = [recvLoops EXCEPT ![i].pc = "Test"]
                /\ UNCHANGED connection_status
           ELSE loop_exit(i)
        /\ UNCHANGED <<is_receiving, transport_is_some, frames_dropped, notApp>>

\* `if !is_receiving.load(SeqCst) { break }` at the top of the loop
LoopTest(i) ==
    /\ i \in DOMAIN recvLoops /\ recvLoops[i].pc = "Test"
    /\ IF is_receiving
       THEN recvLoops' = [recvLoops EXCEPT ![i].pc = "Sleep"]
            /\ UNCHANGED connection_status
       ELSE loop_exit(i)
    /\ UNCHANGED <<is_receiving, transport_is_some, frames_dropped, notApp>>

\* std::thread::sleep(16 ms) is over
LoopSleep(i) ==
    /\ i \in DOMAIN recvLoops /\ recvLoops[i].pc = "Sleep"
    /\ recvLoops' = [recvLoops EXCEPT ![i].pc = "Test"]
    /\ UNCHANGED <<is_receiving, connection_status, transport_is_some,
                   frames_dropped, notApp>>

\* receiving_loop i after spawn_blocking(..).await: the status is computed
\* anew from the transport slot
LoopFinish(i) ==
    /\ i \in DOMAIN recvLoops /\ recvLoops[i].pc = "Finish"
    /\ recvLoops' = [recvLoops EXCEPT ![i].pc = "Exited"]
    /\ connection_status' = status_of(transport_is_some)
    /\ UNCHANGED <<is_receiving, transport_is_some, frames_dropped, notApp>>

LoopStep(i) == LoopCreate(i) \/ LoopTest(i) \/ LoopSleep(i) \/ LoopFinish(i)

InitCancel ==
    /\ SegIdle /\ ReasmIdle /\ SessionIdle /\ UnitIdle

NextCancel ==
    \/ WaitForConnection \/ StartDisplay \/ StopDisplay \/ DisplayDisconnect
    \/ \E i \in 1..MaxStarts :
          LoopCreate(i) \/ LoopTest(i) \/ LoopSleep(i) \/ LoopFinish(i)

\* every spawned task keeps running
FairLoops == \A i \in 1..MaxStarts : WF_vars(LoopStep(i))

SpecCancel == InitCancel /\ [][NextCancel]_vars /\ FairLoops

(***************************************************************************)
(* The capture app (apps/capture, commands.rs): start_streaming,           *)
(* stop_streaming and disconnect_transport calls, which the runtime runs   *)
(* concurrently, and the streaming_loop tasks that start_streaming spawns. *)
(* A command gives way to other tasks at each of its awaits                *)
(***************************************************************************)
notCap == <<segVars, reasmVars, sessionVars, pktVars, statVars, transportVars, encVars,
            appVars, goneVars>>

\* the lock of AppState.streaming is held by a streaming_loop for the whole
\* of an iteration, and by a command while it stores or takes the stream
streaming_unlocked == \A j \in 1..Len(streamLoops) : streamLoops[j] # "Hold"

\* start_streaming up to its first await: the test of is_streaming
StartStreamingCheck ==
    /\ Len(startCalls) < MaxStarts
    /\ startCalls' = Append(startCalls, IF is_streaming THEN "Refused" ELSE "Create")
    /\ UNCHANGED <<is_streaming, capture_stream_is_some, stopTaking, streamLoops, notCap>>

\* CaptureStream::new and Encoder::new (created: both succeeded), then the
\* stream and the encoder are stored under the streaming lock
StartStreamingStore(i) ==
    \E created \in BOOLEAN :
        /\ i \in 1..Len(startCalls) /\ startCalls[i] = "Create"
        /\ created => streaming_unlocked
        /\ startCalls' = [startCalls EXCEPT ![i] = IF created THEN "Flag" ELSE "Failed"]
        /\ capture_stream_is_some' = (created \/ capture_stream_is_some)
        /\ UNCHANGED <<is_streaming, stopTaking, streamLoops, notCap>>

\* is_streaming.store(true), reset_stats; the locks of connection_status,
\* current_config and settings follow
StartStreamingFlag(i) ==
    /\ i \in 1..Len(startCalls) /\ startCalls[i] = "Flag"
    /\ is_streaming' = TRUE
    /\ startCalls' = [startCalls EXCEPT ![i] = "Spawn"]
    /\ UNCHANGED <<capture_stream_is_some, stopTaking, streamLoops, notCap>>

\* tokio::spawn(streaming_loop(..)); Ok(())
StartStreamingSpawn(i) ==
    /\ i \in 1..Len(startCalls) /\ startCalls[i] = "Spawn"
    /\ streamLoops' = Append(streamLoops, "Test")
    /\ startCalls' = [startCalls EXCEPT ![i] = "Done"]
    /\ UNCHANGED <<is_streaming, capture_stream_is_some, stopTaking, notCap>>

\* stop_streaming, or disconnect_transport while is_streaming is set, up to
\* streaming.lock(): is_streaming.store(false)
StopStreaming ==
    \E command \in {"stop_streaming", "disconnect_transport"} :
        /\ ~stopTaking
        /\ command = "disconnect_transport" => is_streaming
        /\ is_streaming' = FALSE
        /\ stopTaking' = TRUE
        /\ UNCHANGED <<capture_stream_is_some, startCalls, streamLoops, notCap>>

\* the rest of the stop under the streaming lock: capture_stream.take(),
\* encoder = None
StopStreamingTake ==
    /\ stopTaking
    /\ streaming_unlocked
    /\ capture_stream_is_some' = FALSE
    /\ stopTaking' = FALSE
    /\ UNCHANGED <<is_streaming, startCalls, streamLoops, notCap>>

\* streaming_loop, top of an iteration: `if !is_streaming.load() { break }`
StreamLoopTest(j) ==
    /\ j \in 1..Len(streamLoops) /\ streamLoops[j] = "Test"
    /\ streamLoops' = [streamLoops EXCEPT ![j] = IF is_streaming THEN "Lock" ELSE "Exited"]
    /\ UNCHANGED <<is_streaming, capture_stream_is_some, startCalls, stopTaking, notCap>>

\* state.streaming.lock().await, then `None => break` on capture_stream
StreamLoopLock(j) ==
    /\ j \in 1..Len(streamLoops) /\ streamLoops[j] = "Lock"
    /\ streaming_unlocked
    /\ streamLoops' =
          [streamLoops EXCEPT ![j] = IF capture_stream_is_some THEN "Hold" ELSE "Exited"]
    /\ UNCHANGED <<is_streaming, capture_stream_is_some, startCalls, stopTaking, notCap>>

\* the rest of an iteration (next_frame, encode, count), which ends with the
\* lock released, by drop(streaming) or by `continue`
StreamLoopIterate(j) ==
    /\ j \in 1..Len(streamLoops) /\ streamLoops[j] = "Hold"
    /\ streamLoops' = [streamLoops EXCEPT ![j] = "Test"]
    /\ UNCHANGED <<is_streaming, capture_stream_is_some, startCalls, stopTaking, notCap>>

InitCapture ==
    /\ SegIdle /\ ReasmIdle /\ SessionIdle /\ UnitIdle

NextCapture ==
    \/ StartStreamingCheck \/ StopStreaming \/ StopStreamingTake
    \/ \E i \in 1..MaxStarts :
          \/ StartStreamingStore(i) \/ StartStreamingFlag(i) \/ StartStreamingSpawn(i)
          \/ StreamLoopTest(i) \/ StreamLoopLock(i) \/ StreamLoopIterate(i)

SpecCapture == InitCapture /\ [][NextCapture]_vars

(***************************************************************************)
(* The session with a sink that advertises other maxima in its HELLO_ACK:  *)
(* one started with other --max-width / --max-height, or one of another    *)
(* build whose frame rate limit is not 60                                  *)
(***************************************************************************)
\* the maxima advertised: below, at and above what the source asks for
AckWidths == {1280, ARGS_WIDTH, SINK_MAX_WIDTH}
AckHeights == {720, ARGS_HEIGHT}
\* max_fps_fixed: 30.5, 60 and 120 frames per second
AckFpsFixed == {30 * 65536 + 32768, 60 * 65536, 120 * 65536}

HelloAcks ==
    { Packet("HelloAck", 0, 0,
             [HelloPayload(1, w, h, 0, 3) EXCEPT !.max_fps_fixed = f]) :
        w \in AckWidths, h \in AckHeights, f \in AckFpsFixed }

InjectHelloAck ==
    /\ injected < MaxInject
    /\ srcPc = "HelloSent"
    /\ injected' = injected + 1
    /\ \E ack \in HelloAcks : toSrc' = Append(toSrc, ack)
    /\ UNCHANGED <<srcVars, snkVars, toSink, srcSent, snkSent, srcRcvd, snkRcvd, srcHs,
                   snkHs, srcStartAck, snkCompleted, snkWarned, decrements, granted,
                   faults, frameBudget, segVars, reasmVars, unitVars>>

NextNegotiate == Next \/ InjectHelloAck

InitNegotiate ==
    /\ SegIdle /\ ReasmIdle /\ SessionStart /\ UnitIdle
    /\ faults = MaxFaults
    /\ snkCredits = 2 /\ frameBudget = MaxRogueFrames

SpecNegotiate == InitNegotiate /\ [][NextNegotiate]_vars

(***************************************************************************)
(* The session with a peer that measures the round trip: a PING arrives at *)
(* the sink, or at the source, while that side is streaming                *)
(***************************************************************************)
\* timestamp_us of the PINGs
PingStamps == {7}

InjectPing ==
    /\ injected < MaxInject
    /\ injected' = injected + 1
    /\ \E t \in PingStamps :
          LET ping == Packet("Ping", 0, 0, PingPayload(t))
          IN  \/ /\ snkPc = "Streaming"
                 /\ toSink' = Append(toSink, ping) /\ toSrc' = toSrc
              \/ /\ ackPc = "Running"
                 /\ toSrc' = Append(toSrc, ping) /\ toSink' = toSink
    /\ UNCHANGED <<srcVars, snkVars, srcSent, snkSent, srcRcvd, snkRcvd, srcHs, snkHs,
                   srcStartAck, snkCompleted, snkWarned, decrements, granted, faults,
                   frameBudget, segVars, reasmVars, unitVars>>

NextPing == Next \/ InjectPing

InitPing ==
    /\ SegIdle /\ ReasmIdle /\ SessionStart /\ UnitIdle
    /\ faults = MaxFaults
    /\ snkCredits = 2 /\ frameBudget = MaxRogueFrames

SpecPing == InitPing /\ [][NextPing]_vars

(***************************************************************************)
(* The session with an encoder whose output does not fit one segment: the  *)
(* `for segment in segments` loop of the source runs more than once per    *)
(* frame                                                                   *)
(***************************************************************************)
\* segments per frame when the encoder's output is long
MaxEncodedSegs == 2

InitMulti ==
    /\ SegIdle /\ ReasmIdle /\ SessionStart
    /\ PktIdle /\ StatIdle /\ TransportIdle /\ AppIdle /\ GoneIdle /\ CapIdle
    /\ encodedLen \in {PLACEHOLDER_LEN, (MaxEncodedSegs - 1) * MAX_SEGMENT_SIZE + 1}
    /\ faults = 0
    /\ snkCredits = 2 /\ frameBudget = MaxRogueFrames + 1

SpecMulti == InitMulti /\ [][Next]_vars

\* the last add_segment call found an incomplete frame of another
\* frame_number pending and discarded it
SkippedAhead ==
    /\ lastSeg # None /\ prevPending # None
    /\ prevPending[1].frame_number # lastSeg[1].metadata.frame_number

\* C20: the dropped-frame counter goes up by exactly 1 with every add_segment
\* call that discards an incomplete pending frame, and with no other call
C20_SkipAheadCounted ==
    [][feeds' = feeds + 1 =>
          frames_dropped' = frames_dropped + (IF SkippedAhead' THEN 1 ELSE 0)]_vars

\* S4: segments 0 and 1 of frame 5, then a segment of frame 6
C20_WitnessSkip ==
    /\ SkippedAhead
    /\ prevPending[1].frame_number = 5 /\ prevPending[1].received_count = 2
    /\ lastSeg[1].metadata.frame_number = 6

(***************************************************************************)
(* Claims about the packet codec                                           *)
(***************************************************************************)
SingleBits == {1, 2, 4, 8, 16, 32, 64, 128}

\* C11: Packet::parse(p.to_bytes()) succeeds, returns a packet with the type,
\* flags, sequence, payload_length and payload of p, and reports
\* 16 + payload_length + 4 consumed bytes, the whole serialized length
C11_PacketRoundTrip ==
    (pktIn # None /\ pktFlip = None) =>
        /\ pktRes.res = "Ok"
        /\ pktRes.packet.header.packet_type = pktIn[1].header.packet_type
        /\ pktRes.packet.header.flags = pktIn[1].header.flags
        /\ pktRes.packet.header.sequence = pktIn[1].header.sequence
        /\ pktRes.packet.header.payload_length = Len(pktIn[1].payload)
        /\ pktRes.packet.payload = pktIn[1].payload
        /\ pktRes.consumed = HEADER_SIZE + Len(pktIn[1].payload) + CRC_SIZE
        /\ pktRes.consumed = Len(pktBytes)

\* the round trip of test_packet_roundtrip's payload in a FRAME packet with
\* sequence 0xFFFFFFFF
C11_Witness ==
    /\ pktIn # None /\ pktFlip = None
    /\ pktIn[1].header.packet_type = "Frame"
    /\ pktIn[1].header.sequence = 0 - 1
    /\ pktIn[1].payload = <<116, 101, 115, 116>>
    /\ pktRes.res = "Ok"
    /\ Len(pktBytes) = 24

\* C12 as stated: a single flipped bit of the header or of the payload gives
\* InvalidMagic in the magic field and ChecksumMismatch everywhere else
C12_FlipIsChecksumMismatch ==
    (/\ pktFlip # None
     /\ pktFlip[2] \in SingleBits
     /\ pktFlip[1] <= HEADER_SIZE + Len(pktIn[1].payload)) =>
        pktRes.res = (IF pktFlip[1] <= 4 THEN "InvalidMagic" ELSE "ChecksumMismatch")

\* what Packet::parse returns for a serialized packet of payload length len
\* after `mask` was XORed into its byte i, by the field the byte lies in
FlipOutcomes(len, i, mask, old) ==
    IF i <= 4 THEN {"InvalidMagic"}
    ELSE IF i = 5 THEN {"UnsupportedVersion"}
    ELSE IF i = 6
    THEN (IF PacketType_from_u8(xor_u8(old, mask)) = "UnknownPacketType"
          THEN {"UnknownPacketType"} ELSE {"ChecksumMismatch"})
    ELSE IF i <= 12 THEN {"ChecksumMismatch"}
    ELSE IF i <= HEADER_SIZE
    THEN (IF xor_u8(old, mask) > old THEN {"BufferTooShort"}
          ELSE {"ChecksumMismatch", "Ok"})
    ELSE {"ChecksumMismatch"}

\* C12 (amended): a single flipped bit of a serialized packet is answered by
\* the first check of the validation order that it fails: InvalidMagic in
\* magic, UnsupportedVersion in version, UnknownPacketType in type (or
\* ChecksumMismatch when the flipped code is another packet type),
\* BufferTooShort for a payload_length bit that was set to 1, and
\* ChecksumMismatch in flags, sequence, payload and CRC.  A payload_length bit
\* cleared to 0 gives ChecksumMismatch, unless the bytes after the shortened
\* payload are its CRC32C: then the buffer is accepted as the shorter packet
C12_FlipOutcome ==
    (pktFlip # None /\ pktFlip[2] \in SingleBits) =>
        LET len == Len(pktIn[1].payload)
            i == pktFlip[1]
            old == Packet_to_bytes(pktIn[1])[i]
        IN  /\ pktRes.res \in FlipOutcomes(len, i, pktFlip[2], old)
            /\ pktRes.res = "Ok" =>
                  /\ pktRes.consumed < Len(pktBytes)
                  /\ pktRes.packet.header.payload_length < len
                  /\ pktRes.packet.payload =
                        SubSeq(pktIn[1].payload, 1, pktRes.packet.header.payload_length)
                  /\ SubSeq(pktBytes, pktRes.consumed - CRC_SIZE + 1, pktRes.consumed) =
                        put_u32_le(crc32c(SubSeq(pktBytes, 1, pktRes.consumed - CRC_SIZE)))

\* bit 1 of the version byte flipped: version 3
C12_Witness ==
    /\ pktFlip = <<5, 2>>
    /\ pktBytes[5] = 3
    /\ pktRes.res = "UnsupportedVersion"

\* the altered buffer accepted: payload_length 4 -> 0 in front of a payload
\* that is the CRC32C of the empty packet
C12_WitnessAccepted ==
    /\ pktFlip = <<13, 4>>
    /\ Len(pktIn[1].payload) = 4
    /\ pktRes.res = "Ok"
    /\ pktRes.consumed = 20

\* bytes[HEADER_SIZE] ^= 0xFF of test_checksum_mismatch
C12_WitnessInverted ==
    /\ pktFlip = <<HEADER_SIZE + 1, 255>>
    /\ pktRes.res = "ChecksumMismatch"

(***************************************************************************)
(* Claims about segmentation and reassembly                                *)
(***************************************************************************)
CeilDiv(a, b) == (a \div b) + (IF a % b = 0 THEN 0 ELSE 1)

RECURSIVE ConcatData(_)
ConcatData(segs) ==
    IF segs = <<>> THEN <<>> ELSE Cat(segs[1].data, ConcatData(Tail(segs)))

Injective(s) == \A i, j \in 1..Len(s) : s[i] = s[j] => i = j

RunIndices == { runSegs[i].segment_index : i \in 1..Len(runSegs) }

\* the frame a complete reassembly of pool frame f must return: f's bytes and
\* f's frame_number, pts_us and capture_ts_us (the keyframe flag is not carried)
Reassembled(f) ==
    EncodedFrame(FrameMetadata(f.metadata.frame_number, f.metadata.pts_us,
                               f.metadata.capture_ts_us, FALSE), f.data)

\* C7 (reassembly law): when the segments of one frame are fed, each once and
\* in any order, to a reassembler that had no pending frame, every call but
\* the last returns None and the last call returns the original frame's bytes
\* with its frame_number, pts_us and capture_ts_us; a single-segment frame
\* completes on its first call.
C7_ReassemblyLaw ==
    (runSegs # <<>> /\ runFresh /\ Injective(runSegs)) =>
        LET f == PoolFrame(runSegs[1].metadata.frame_number)
            n == Len(into_segments(f))
        IN  /\ ~panicked
            /\ Len(runSegs) <= n
            /\ Len(runSegs) < n => lastRet = None /\ pending # None
            /\ Len(runSegs) = n => lastRet = Some(Reassembled(f)) /\ pending = None

\* C7 witness: the four segments of frame 5 fed out of order, the last one
\* completing the frame
C7_Witness ==
    /\ runFresh /\ Injective(runSegs) /\ Len(runSegs) = 4
    /\ runSegs[1].segment_index = 2 /\ runSegs[4].segment_index = 0
    /\ lastRet = Some(Reassembled(PoolFrame(5)))

\* C8 (skip-ahead): a segment of another frame arriving while a frame is
\* pending replaces the pending state, the old frame is not emitted by that
\* call, the new frame is emitted exactly by the call that brings the last of
\* its segment indices (no segment of another frame in between), and the
\* reassembler holds at most one pending frame, made of the new frame's
\* segments only.
C8_SkipAhead ==
    /\ Len(pending) <= 1
    /\ pending # None =>
          /\ runSegs # <<>>
          /\ pending[1].frame_number = runSegs[1].metadata.frame_number
          /\ \A k \in 1..Len(pending[1].received_segments) :
                pending[1].received_segments[k] # None <=> (k - 1) \in RunIndices
    /\ (lastSeg # None /\ prevPending # None
          /\ prevPending[1].frame_number # lastSeg[1].metadata.frame_number) =>
          /\ runSegs = <<lastSeg[1]>>
          /\ lastRet # None => lastRet[1].metadata.frame_number # prevPending[1].frame_number
          /\ pending # None => pending[1].received_count = 1
          /\ pending = None <=> lastSeg[1].segment_count = 1
    /\ runSegs # <<>> =>
          LET f == PoolFrame(runSegs[1].metadata.frame_number)
              n == Len(into_segments(f))
              last == runSegs[Len(runSegs)].segment_index
              firstTime == \A i \in 1..(Len(runSegs) - 1) : runSegs[i].segment_index # last
          IN  IF RunIndices = 0..(n - 1) /\ firstTime
              THEN lastRet = Some(Reassembled(f)) /\ pending = None
              ELSE lastRet = None

\* C8 witness: frame 5 was pending and incomplete, a segment of frame 6
\* replaced it, and frame 6 was emitted when its second segment arrived
C8_Witness ==
    /\ ~runFresh /\ Len(runSegs) = 2
    /\ lastRet = Some(Reassembled(PoolFrame(6)))

\* C9 (duplicate idempotence), as claimed: when the same segment is fed twice
\* in succession the second call returns None and leaves the reassembler
\* state unchanged.
C9_DuplicateIdempotent ==
    (lastSeg # None /\ prevSeg = lastSeg) => (lastRet = None /\ pending = prevPending)

\* C10 (segmentation law): into_segments returns n = max(1, ceil(len / 65536))
\* segments, indexed 0..n-1 in order, each carrying frame_size = len,
\* segment_count = n and the frame's metadata; every segment holds at most
\* MAX_SEGMENT_SIZE bytes and all but the last exactly that many; the data
\* concatenated in index order is the buffer.
C10_SegmentationLaw ==
    encoded # None =>
        LET f == encoded[1]
            len == ByteLen(f.data)
            n == Max(1, CeilDiv(len, MAX_SEGMENT_SIZE))
        IN  /\ Len(segments) = n
            /\ \A i \in 1..Len(segments) :
                  /\ segments[i].segment_index = i - 1
                  /\ segments[i].segment_count = n
                  /\ segments[i].frame_size = len
                  /\ segments[i].metadata = f.metadata
                  /\ ByteLen(segments[i].data) <= MAX_SEGMENT_SIZE
                  /\ i < Len(segments) => ByteLen(segments[i].data) = MAX_SEGMENT_SIZE
            /\ ConcatData(segments) = f.data
            /\ len = 200000 =>
                  [i \in 1..Len(segments) |-> ByteLen(segments[i].data)]
                      = <<65536, 65536, 65536, 3392>>
            /\ len <= MAX_SEGMENT_SIZE => Len(segments) = 1

\* C10 witness: a 200000-byte buffer split into four segments
C10_Witness ==
    /\ encoded # None
    /\ ByteLen(encoded[1].data) = 200000
    /\ Len(segments) = 4
    /\ ByteLen(segments[4].data) = 3392

(***************************************************************************)
(* Claims about the session: credits and the handshake                     *)
(***************************************************************************)
\* the types of the packets in a log of sent packets
Types(log) == { log[i].type : i \in DOMAIN log }

\* the frame numbers of the FRAME packets the source handed to its transport
FramesSent ==
    { srcSent[i].payload.header.frame_number :
        i \in { j \in DOMAIN srcSent : srcSent[j].type = "Frame" } }

\* the source has created its credit counter (it has entered Streaming)
CounterCreated == ackPc # "None"

\* C1: across every interleaving of the producer loop and the ACK receiver
\* task, no update of the 16-bit credit counter leaves its range: no decrement
\* goes below 0 and no addition goes above 65535
C1_CreditNeverWraps == creditsWide >= 0 /\ creditsWide <= U16_MAX

\* C2: whenever the source hands a FRAME packet to its transport, the credit
\* counter is at least 1 at that moment
C2_NoFrameAtZeroCredits ==
    [][ (/\ Len(srcSent') > Len(srcSent)
         /\ srcSent'[Len(srcSent')].type = "Frame") => credits >= 1 ]_vars

\* C3: when START_ACK granted 2 credits, then as long as no FRAME_ACK has been
\* taken in the source has sent at most 2 frames, and once it has spent both
\* credits the counter is 0 and the credit wait blocks; after one FRAME_ACK
\* with credits_returned = 1 it has sent at most 3 frames, and once it has
\* spent the third credit it is blocked again
C3_CreditExhaustion ==
    (CounterCreated /\ srcStartAck[1].initial_credits = 2 /\ granted <= 1) =>
        /\ Cardinality(FramesSent) <= 2 + granted
        /\ decrements <= 2 + granted
        /\ decrements = 2 + granted =>
              /\ credits = 0
              /\ srcPc \notin {"Capture", "Sending", "Decrement"}
              /\ (srcPc = "Streaming" /\ srcConn) => ~ENABLED SrcWaitCredits

\* the source spent 2 credits, took in one FRAME_ACK, sent a third frame and
\* waits for credits again with the link up
C3_Witness ==
    /\ CounterCreated /\ srcStartAck[1].initial_credits = 2
    /\ granted = 1 /\ decrements = 3 /\ Cardinality(FramesSent) = 3
    /\ srcPc = "Streaming" /\ srcConn /\ credits = 0 /\ frame_count < frameBudget

\* C4: a peer that parses, during its handshake, a packet of a type other than
\* the one it awaits has failed on that packet: it has parsed nothing further,
\* has sent nothing beyond what it had sent before, and is not streaming
C4_HandshakeFailFast ==
    /\ (Len(srcHs) >= 1 /\ srcHs[1] # "HelloAck") =>
          /\ srcPc = "Failed" /\ Len(srcHs) = 1 /\ ~CounterCreated
          /\ Types(srcSent) = {"Hello"} /\ Len(srcSent) = 1
    /\ (Len(srcHs) >= 2 /\ srcHs[2] # "StartAck") =>
          /\ srcPc = "Failed" /\ Len(srcHs) = 2 /\ ~CounterCreated
          /\ Types(srcSent) = {"Hello", "Start"} /\ Len(srcSent) = 2
    /\ (Len(snkHs) >= 1 /\ snkHs[1] # "Hello") =>
          /\ snkPc = "Failed" /\ Len(snkHs) = 1 /\ snkSent = <<>>
    /\ (Len(snkHs) >= 2 /\ snkHs[2] # "Start") =>
          /\ snkPc = "Failed" /\ Len(snkHs) = 2
          /\ Types(snkSent) = {"HelloAck"} /\ Len(snkSent) = 1

\* the source, awaiting START_ACK, parsed a HELLO and failed
C4_Witness == srcHs = <<"HelloAck", "Hello">> /\ srcPc = "Failed"

\* the other three cases of C4
C4_WitnessSrcHello == Len(srcHs) = 1 /\ srcHs[1] = "StartAck" /\ srcPc = "Failed"
C4_WitnessSnkHello == snkHs = <<"Stop">> /\ snkPc = "Failed"
C4_WitnessSnkStart == snkHs = <<"Hello", "HelloAck">> /\ snkPc = "Failed"

\* C5: the credit counter exists only after a START_ACK of status 0 was
\* parsed, and it is that START_ACK's initial_credits less the decrements plus
\* the credits returned since; a START_ACK of another status fails the session
\* with no counter and no FRAME sent; and when no foreign packet was on the
\* link the START_ACK carries the sink's configured credit count, and a source
\* that streams has a sink that sent START_ACK and left its handshake
C5_StreamingAfterStartAck ==
    /\ CounterCreated =>
          /\ srcStartAck # None /\ is_ok(srcStartAck[1])
          /\ "StartAck" \in srcRcvd
          /\ credits = (srcStartAck[1].initial_credits - decrements + granted)
                          % (U16_MAX + 1)
          /\ (decrements = 0 /\ granted = 0) =>
                credits = srcStartAck[1].initial_credits
    /\ ~CounterCreated => "Frame" \notin Types(srcSent)
    /\ (srcStartAck # None /\ ~is_ok(srcStartAck[1])) =>
          /\ srcPc = "Failed" /\ ~CounterCreated
          /\ "Frame" \notin Types(srcSent)
    /\ (injected = 0 /\ srcStartAck # None) =>
          /\ srcStartAck[1] = StartAckPayload_ok(snkCredits)
          /\ "StartAck" \in Types(snkSent)
          /\ snkPc \notin {"Waiting", "HelloAcked"}

\* S1: after the four handshake packets, with the default credit count and
\* nothing gone wrong, both peers stream and the source holds 8 credits
C5_Witness ==
    /\ srcPc = "Streaming" /\ snkPc = "Streaming"
    /\ snkCredits = DEFAULT_CREDITS /\ credits = DEFAULT_CREDITS
    /\ Len(srcSent) = 2 /\ Len(snkSent) = 2 /\ toSrc = <<>> /\ toSink = <<>>
    /\ injected = 0 /\ faults = 0

\* the refusal case of C5: a START_ACK of status 1 was parsed
C5_WitnessRefused == srcStartAck # None /\ ~is_ok(srcStartAck[1]) /\ srcPc = "Failed"

\* C6: a reply has been sent only by a peer that has received the matching
\* request: HELLO_ACK after HELLO, START after HELLO_ACK, START_ACK after
\* START, STOP_ACK after STOP
C6_ReplyAfterRequest ==
    /\ "HelloAck" \in Types(snkSent) => "Hello" \in snkRcvd
    /\ "Start" \in Types(srcSent) => "HelloAck" \in srcRcvd
    /\ "StartAck" \in Types(snkSent) => "Start" \in snkRcvd
    /\ "StopAck" \in Types(snkSent) => "Stop" \in snkRcvd
    /\ Types(srcSent) \cap {"HelloAck", "StartAck", "StopAck"} = {}
    /\ \A i \in DOMAIN snkSent :
          /\ snkSent[i].type = "HelloAck" => i = 1
          /\ snkSent[i].type = "StartAck" => i = 2
    /\ \A i \in DOMAIN srcSent :
          /\ srcSent[i].type = "Hello" => i = 1
          /\ srcSent[i].type = "Start" => i = 2

\* a whole session: every request was answered, down to STOP_ACK
C6_Witness ==
    /\ Types(srcSent) = {"Hello", "Start", "Frame", "Stop"}
    /\ {"HelloAck", "StartAck", "StopAck"} \subseteq Types(snkSent)
    /\ "StopAck" \in srcRcvd

(***************************************************************************)
(* Claims about the sink's main loop                                       *)
(***************************************************************************)
\* the frame_numbers of the FRAME packets the source sent, in order
SentFrameNumbers ==
    LET frames == SelectSeq(srcSent, LAMBDA p : p.type = "Frame")
    IN  [i \in 1..Len(frames) |-> frames[i].payload.header.frame_number]

NonDecreasing(s) == \A i, j \in 1..Len(s) : i < j => s[i] <= s[j]

CompletedNumbers == [i \in 1..Len(snkCompleted) |-> snkCompleted[i].frame_number]

\* C13: within a session the frame_numbers of the frames the sink completes
\* are non-decreasing, the source's FRAME stream being non-decreasing
C13_CompletedNonDecreasing ==
    NonDecreasing(SentFrameNumbers) => NonDecreasing(CompletedNumbers)

\* three frames completed, of which the second failed to decode
C13_Witness ==
    /\ Len(snkCompleted) = 3
    /\ ~snkCompleted[2].decoded
    /\ snkCompleted[1].frame_number < snkCompleted[3].frame_number
    /\ Len(SentFrameNumbers) >= 3

\* the sink's main loop takes the buffer at the head of the link
SinkTakes == snkPc = "Streaming" /\ snkConn /\ toSink # <<>> /\ toSink' = Tail(toSink)

\* what the sink's main loop keeps between two packets
sinkState == <<snkPc, snkConn, snkSeq, snkCredits, snkFrameNumber, pending, panicked,
               snkSent, toSrc, snkCompleted>>

\* C14: a buffer that fails Packet::parse is dropped by the Streaming sink:
\* the reassembler, the frame counter and the session state stay as they
\* are and nothing is sent, so that the packets that follow are processed as
\* if it had not been received
C14_CorruptDropped ==
    [][(SinkTakes /\ Head(toSink).type \notin PacketTypes) => UNCHANGED sinkState]_vars

\* frame 0 was damaged in flight and dropped; frame 1, which followed it, was
\* completed and acknowledged
C14_Witness ==
    /\ "Receive error" \in snkWarned
    /\ Len(snkCompleted) = 1
    /\ snkCompleted[1].frame_number = 1
    /\ snkFrameNumber = 1
    /\ \E i \in 1..Len(snkSent) :
          snkSent[i].type = "FrameAck" /\ snkSent[i].payload.frame_number = 1

\* the packet is a FRAME whose payload is not a valid FrameHeader
BadFrame(packet) ==
    /\ packet.type = "Frame"
    /\ \/ payload_length(packet) < FRAME_HEADER_SIZE
       \/ ~FrameHeader_parse_ok(packet.payload.header)

\* C15: a FRAME packet whose payload is not a valid FrameHeader is dropped by
\* the sink, which stays in Streaming with its reassembler untouched
C15_BadFrameDropped ==
    [][(SinkTakes /\ BadFrame(Head(toSink))) =>
          (snkPc' = "Streaming" /\ pending' = pending)]_vars

\* the one case the sink does drop: a payload shorter than a FrameHeader
C15_WitnessTruncated ==
    /\ "Frame payload too small" \in snkWarned
    /\ snkPc = "Streaming"

(***************************************************************************)
(* Claims about the credit loop                                            *)
(***************************************************************************)
FrameAcksSent == SelectSeq(snkSent, LAMBDA p : p.type = "FrameAck")

AckedNumbers == [i \in 1..Len(FrameAcksSent) |-> FrameAcksSent[i].payload.frame_number]

\* C18: the sink sends one FRAME_ACK, with credits_returned = 1 and the
\* frame's frame_number, for every frame its reassembler completes, decoded
\* or not, and none otherwise (as long as its transport is connected)
C18_AckPerCompletedFrame ==
    /\ \A i \in 1..Len(FrameAcksSent) : FrameAcksSent[i].payload.credits_returned = 1
    /\ snkConn => AckedNumbers = CompletedNumbers

\* a frame that decoded is acknowledged
C18_WitnessDecoded ==
    /\ snkConn
    /\ Len(snkCompleted) = 1 /\ snkCompleted[1].decoded
    /\ AckedNumbers = CompletedNumbers

\* the source's producer is at the credit wait with no credit while capture
\* has frames to deliver
CreditWait == srcPc = "Streaming" /\ credits = 0 /\ frame_count < frameBudget

\* both transports are connected and both main loops and the ACK task run
Healthy == srcConn /\ snkConn /\ snkPc = "Streaming" /\ ackPc = "Running"

\* C19: while the link is healthy, a source waiting at credits == 0
\* eventually gets a credit
C19_NoCreditDeadlock == (CreditWait /\ Healthy) ~> (credits # 0 \/ ~Healthy)

\* the wait that does end: every frame decoded, the credit comes back
C19_WitnessWait ==
    /\ CreditWait /\ Healthy
    /\ \A i \in 1..Len(snkCompleted) : snkCompleted[i].decoded

(***************************************************************************)
(* Claims about the transports                                             *)
(***************************************************************************)
\* C16: once a transport is disconnected (close() on either endpoint of a
\* MockTransport pair; close() or an I/O error on a UsbTransport),
\* is_connected() is false on it from then on, and every send and recv that
\* begins afterwards returns Disconnected without moving a buffer
C16_DisconnectedStaysDown ==
    /\ mockDown # {} => \A e \in Endpoints : ~mock_is_connected(e)
    /\ usbDown => ~usbConn
    /\ (lastCall.after /\ lastCall.op \in {"send", "recv"}) =>
            (lastCall.res = "Disconnected" /\ ~lastCall.io)

\* endpoint 1 closed the pair; recv() on endpoint 2 then returned
\* Disconnected although a buffer from endpoint 1 was waiting for it
C16_Witness ==
    /\ mockDown = {1}
    /\ lastCall = Call("mock", 2, "recv", "Disconnected", TRUE, FALSE)
    /\ chans[1] # <<>>

\* a bulk transfer failed on the UsbTransport; the next send returned
\* Disconnected
C16_WitnessUsb ==
    /\ usbDown /\ calls = 2
    /\ lastCall = Call("usb", 0, "send", "Disconnected", TRUE, FALSE)

\* C17: on a MockTransport pair the buffers that the recv() calls of one
\* endpoint returned, followed by those still in the channel, are exactly
\* the buffers the other endpoint's send() calls accepted, in sending order
C17_MockFifo ==
    \A e \in Endpoints : mockSent[e] = mockRcvd[3 - e] \o chans[e]

\* two buffers of endpoint 1 received in order by endpoint 2, while a
\* buffer of endpoint 2 is on its way to endpoint 1
C17_Witness ==
    /\ mockRcvd[2] = <<<<1, 1>>, <<1, 2>>>>
    /\ chans[2] = <<<<2, 1>>>>
    /\ mockRcvd[1] = <<>>

(***************************************************************************)
(* Claims about the streaming loops of the source and the sink             *)
(***************************************************************************)
\* the positions in srcSent of the FRAME packets of frame n
SentSegments(n) ==
    { i \in DOMAIN srcSent : /\ srcSent[i].type = "Frame"
                             /\ srcSent[i].payload.header.frame_number = n }

\* the frames all of whose segments the source handed to its transport
FullySent ==
    { n \in FramesSent :
        \E i \in SentSegments(n) :
            Cardinality(SentSegments(n)) = srcSent[i].payload.header.segment_count }

\* C21: the credit counter has been decremented once for every frame all of
\* whose segments were sent (the decrement of the frame just sent is still
\* to come while the producer stands before its fetch_sub), and never for a
\* frame whose send failed
C21_DecrementPerSentFrame ==
    CounterCreated =>
        decrements = Cardinality(FullySent) - (IF srcPc = "Decrement" THEN 1 ELSE 0)

\* C22: a FRAME_ACK that returns r credits to a counter holding c leaves
\* min(c + r, 65535) in the counter
C22_SaturatingAdd ==
    [][ granted' # granted =>
            credits' = Min(credits + (granted' - granted), U16_MAX) ]_vars

\* the sink leaves its main loop for Closed in this step while its transport
\* is connected and no transfer of the step fails
SinkLeavesStreaming ==
    /\ snkPc = "Streaming" /\ snkPc' = "Closed"
    /\ snkConn /\ faults' = faults

\* C24: a sink that leaves Streaming on a working transport sends exactly one
\* packet on its way out: STOP_ACK when it took a STOP from the peer, and
\* STOP when the user quit
C24_SinkLeavesWithStop ==
    [][ SinkLeavesStreaming =>
          /\ Len(snkSent') = Len(snkSent) + 1
          /\ SubSeq(snkSent', 1, Len(snkSent)) = snkSent
          /\ snkSent'[Len(snkSent')].type =
                IF toSink' # toSink THEN "StopAck" ELSE "Stop"
          /\ toSink' # toSink => Head(toSink).type = "Stop" ]_vars

\* the frame_numbers of the frames whose decode call returned Ok, in order
DecodedNumbers ==
    LET done == SelectSeq(snkCompleted, LAMBDA c : c.decoded)
    IN  [i \in 1..Len(done) |-> done[i].frame_number]

\* C28: the i-th FRAME_ACK the sink has sent names the i-th frame whose
\* decode call has returned, so that no FRAME_ACK precedes the decode of its
\* frame, and the frame_numbers of the FRAME_ACKs are non-decreasing
C28_AckAfterDecode ==
    /\ Len(AckedNumbers) <= Len(DecodedNumbers)
    /\ \A i \in 1..Len(AckedNumbers) : AckedNumbers[i] = DecodedNumbers[i]
    /\ NonDecreasing(AckedNumbers)

\* frames 0 and 2 decoded and were acknowledged in that order; frame 1,
\* between them, failed to decode
C28_Witness ==
    /\ Len(snkCompleted) = 3 /\ ~snkCompleted[2].decoded
    /\ AckedNumbers = <<0, 2>>

\* the FrameHeaders of the FRAME packets the source sent, in order
SentHeaders ==
    LET frames == SelectSeq(srcSent, LAMBDA p : p.type = "Frame")
    IN  [i \in 1..Len(frames) |-> frames[i].payload.header]

\* C27: on the source's FRAME stream every frame starts with segment 0 and
\* goes on with the next segment_index until the next frame starts; a frame
\* starts only after the last segment of the frame before it, and carries a
\* frame_number that is not smaller
C27_SegmentsInOrder ==
    \A i \in 1..Len(SentHeaders) :
        LET h == SentHeaders[i]
        IN  IF i = 1 THEN h.segment_index = 0
            ELSE LET g == SentHeaders[i - 1]
                 IN  \/ /\ h.frame_number = g.frame_number
                        /\ h.segment_index = g.segment_index + 1
                     \/ /\ h.frame_number > g.frame_number
                        /\ h.segment_index = 0
                        /\ g.segment_index = g.segment_count - 1

\* two frames of two segments each went out
C27_Witness ==
    /\ Len(SentHeaders) = 4
    /\ SentHeaders[2].segment_index = 1 /\ SentHeaders[2].segment_count = 2
    /\ SentHeaders[4].segment_index = 1
    /\ SentHeaders[4].frame_number > SentHeaders[2].frame_number

\* the source's ACK receiver task takes the buffer at the head of the link
AckTakes ==
    /\ ackPc = "Running" /\ srcConn /\ srcPc' = srcPc
    /\ toSrc # <<>> /\ toSrc' = Tail(toSrc)

\* the PONG that answers a PING
PongFor(ping, sequence) ==
    Packet("Pong", 0, sequence, PongPayload(ping.payload.timestamp_us, 0))

\* C25: a streaming peer that takes a PING sends, in reply, one PONG whose
\* ping_timestamp_us is the PING's timestamp_us, and goes on streaming; the
\* sink's main loop does, and so does the source's ACK receiver task
C25_PingAnswered ==
    [][ /\ (SinkTakes /\ Head(toSink).type = "Ping") =>
              /\ snkSent' = Append(snkSent, PongFor(Head(toSink), snkSeq))
              /\ snkPc' = "Streaming"
        /\ (AckTakes /\ Head(toSrc).type = "Ping") =>
              /\ srcSent' = Append(srcSent, PongFor(Head(toSrc), srcSeq))
              /\ ackPc' = "Running" ]_vars

\* the sink has answered a PING and is streaming
C25_WitnessSinkPong ==
    /\ snkPc = "Streaming"
    /\ "Ping" \in snkRcvd
    /\ \E i \in 1..Len(snkSent) :
          /\ snkSent[i].type = "Pong"
          /\ snkSent[i].payload.ping_timestamp_us \in PingStamps

(***************************************************************************)
(* Claims about cancellation and shutdown                                  *)
(***************************************************************************)
\* receiving_loop i was started and a stop came after its start
LoopStopped(i) == i \in DOMAIN recvLoops /\ recvLoops[i].stopped

\* receiving_loop i has returned
LoopExited(i) == i \in DOMAIN recvLoops /\ recvLoops[i].pc = "Exited"

\* C29: every receiving_loop that was started ends after the stop that
\* follows its start (stop_display or disconnect), whatever the user does
\* next
C29_StoppedLoopExits ==
    \A i \in 1..MaxStarts : LoopStopped(i) ~> LoopExited(i)

\* a loop that was stopped and has ended while no other was started
C29_WitnessExit ==
    /\ Len(recvLoops) = 1
    /\ LoopStopped(1) /\ LoopExited(1)
    /\ ~is_receiving

\* the ACK receiver task has ended while the transport is connected: it took
\* a STOP from the sink (its only other way out is a disconnected transport)
AckStopped == ackPc = "Done" /\ srcConn

\* C23: after its ACK receiver task has taken a STOP, the source leaves
\* Streaming and reaches Closed
C23_StopEndsSource == AckStopped ~> (srcPc = "Closed")

\* the case that does end: capture has no frame left when the STOP is taken
C23_WitnessClosed ==
    /\ srcPc = "Closed" /\ ackPc = "Done"
    /\ "Stop" \in srcRcvd /\ "Stop" \in Types(srcSent)

\* C30: once the producer loop has ended, the source sends STOP, waits for
\* one reply at most and closes its transport: it reaches Closed whatever
\* the reply is
C30_ShutdownTerminates == (srcPc = "Stopping") ~> (srcPc = "Closed" /\ ~srcConn)

\* the source sent STOP, got no STOP_ACK and is Closed
C30_Witness ==
    /\ srcPc = "Closed" /\ ~srcConn
    /\ "Stop" \in Types(srcSent)
    /\ "StopAck" \notin srcRcvd

\* C26: a transport error during Streaming ends the session, also when the
\* error is ChannelClosed because the other endpoint went away: once the
\* peer's endpoint is gone, a streaming sink leaves its loop and closes, and
\* a source whose ACK task is running ends that task and closes
SinkOutlivesPeer == peerGone /\ snkPc = "Streaming"

SourceOutlivesPeer == peerGone /\ ackPc = "Running"

C26_TransportErrorEndsSession ==
    /\ SinkOutlivesPeer ~> (snkPc = "Closed")
    /\ SourceOutlivesPeer ~> (srcPc = "Closed" /\ ackPc = "Done")

\* the sink has logged the ChannelClosed error of its recv
C26_WitnessSinkError == SinkOutlivesPeer /\ "Receive error" \in snkWarned

\* the producer's send failed with ChannelClosed and it went on
C26_WitnessSourceError ==
    /\ SourceOutlivesPeer /\ srcPc = "Streaming"
    /\ decrements > Cardinality(FullySent)

\* C31: Packet::parse checks in the order input length >= 16, magic, version,
\* packet type, input length >= 16 + payload_length + 4, CRC: a buffer that
\* fails several checks gets the error of the earliest one it fails, and a
\* packet is returned only when it fails none
FirstFailedCheck(d) ==
    IF d.cut = "header" THEN "BufferTooShort"
    ELSE IF "magic" \in d.fields THEN "InvalidMagic"
    ELSE IF "version" \in d.fields THEN "UnsupportedVersion"
    ELSE IF "type" \in d.fields THEN "UnknownPacketType"
    ELSE IF "length" \in d.fields \/ d.cut = "tail" THEN "BufferTooShort"
    ELSE IF "crc" \in d.fields THEN "ChecksumMismatch"
    ELSE "Ok"

C31_ParseCheckOrder ==
    pktDamage # None =>
        /\ pktRes.res = FirstFailedCheck(pktDamage[1])
        /\ pktRes.res = "Ok" =>
              /\ pktDamage[1] = [fields |-> {}, cut |-> "none"]
              /\ pktRes.packet = pktIn[1]

\* version, type and CRC wrong at once: the version is reported
C31_Witness ==
    /\ pktDamage = Some([fields |-> {"version", "type", "crc"}, cut |-> "none"])
    /\ pktRes.res = "UnsupportedVersion"

\* every field wrong in a buffer cut inside the header
C31_WitnessShort ==
    /\ pktDamage = Some([fields |-> DamageFields, cut |-> "header"])
    /\ pktRes.res = "BufferTooShort"

\* C32: the START the source sends carries the minimum of its own width,
\* height and fps and of the maxima of the HELLO_ACK it received (for fps the
\* whole part of max_fps), so no START parameter exceeds either peer's limit
SourceSendsStart == srcPc = "HelloSent" /\ srcPc' = "StartSent"

Least(a, b) == IF a <= b THEN a ELSE b

C32_StartIsNegotiated ==
    [][SourceSendsStart =>
          LET ack == Head(toSrc).payload
              start == srcSent'[Len(srcSent')]
              whole == ack.max_fps_fixed \div 65536
          IN  /\ start.type = "Start"
              /\ start.payload.width = Least(ARGS_WIDTH, ack.max_width)
              /\ start.payload.height = Least(ARGS_HEIGHT, ack.max_height)
              /\ start.payload.fps_fixed = 65536 * Least(ARGS_FPS, whole)]_vars

\* a START for 1280x720 at 30 fps was sent to a sink that advertised
\* 1280x720 at 30.5 fps
C32_Witness ==
    /\ srcPc = "StartSent"
    /\ srcSent[Len(srcSent)].type = "Start"
    /\ srcSent[Len(srcSent)].payload =
          [width |-> 1280, height |-> 720, fps_fixed |-> 30 * 65536,
           bitrate_bps |-> ARGS_BITRATE_MBPS * 1000000]

\* C33: the sink sends START_ACK only after its decoder and its renderer were
\* built: when its START handling ends the session, no START_ACK was sent by
\* it, so the source is not let into Streaming by a sink that has neither
SinkStartFails == snkPc = "HelloAcked" /\ snkPc' = "Failed"

C33_StartAckAfterSetup == [][SinkStartFails => snkSent' = snkSent]_vars

\* every segment fed has a header that FrameHeader::parse accepts
FedHeadersParse ==
    lastSeg # None => FrameHeader_parse_ok(HeaderOf(lastSeg[1]))

\* a pending frame still misses a segment
PendingIsIncomplete ==
    pending # None => pending[1].received_count < pending[1].segment_count

\* the frame just emitted is as long as its segments say
EmittedHasFrameSize ==
    lastRet # None => ByteLen(lastRet[1].data) = lastSeg[1].frame_size

\* C34: a pending frame has received_count < segment_count (a frame with all
\* its segments is emitted, not kept), and every frame the reassembler emits
\* is as long as the frame_size its segments carry
C34_ReassemblerInvariants == PendingIsIncomplete /\ EmittedHasFrameSize

\* C35: add_segment never indexes outside the slots of the pending frame,
\* also for a segment that reuses its frame_number with another
\* segment_count: no call panics
C35_NoIndexPanic == FedHeadersParse /\ ~panicked

\* the frames the producer has begun to send: one per decrement, and the one
\* whose segments are being sent or whose decrement is next
FramesStarted == decrements + (IF srcPc \in {"Sending", "Decrement"} THEN 1 ELSE 0)

\* the FRAME_ACKs taken in return one credit each
OneCreditPerAck ==
    \A i \in 1..Len(FrameAcksSent) : FrameAcksSent[i].payload.credits_returned = 1

\* C36: with a sink that returns one credit per FRAME_ACK, the frames the
\* source has started to send less the FRAME_ACKs it has processed are never
\* more than the initial_credits of START_ACK, in every interleaving of the
\* producer loop and the ACK receiver task
C36_InFlightBound ==
    (CounterCreated /\ OneCreditPerAck) =>
        FramesStarted - granted <= srcStartAck[1].initial_credits

\* two credits granted, one FRAME_ACK processed, and again two frames in
\* flight with the third being sent
C36_Witness ==
    /\ CounterCreated /\ srcStartAck[1].initial_credits = 2
    /\ granted = 1 /\ FramesStarted = 3 /\ srcPc = "Sending"

\* the stop-wait of the source ends, on a transport that is connected and
\* has no I/O error, after the sink has sent its STOP_ACK
StopWaitEnds ==
    /\ srcPc = "StopWait" /\ srcPc' = "Closed"
    /\ srcConn /\ faults' = faults
    /\ "StopAck" \in Types(snkSent)

\* C37: when the sink has replied STOP_ACK, the packet the source's stop-wait
\* receives is that STOP_ACK: the ACK receiver task has not taken it, and no
\* FRAME_ACK still in flight is received in its place
C37_StopWaitSeesStopAck ==
    [][StopWaitEnds => (toSrc # <<>> /\ Head(toSrc).type = "StopAck")]_vars

\* the streaming_loop tasks that have not returned
LiveStreamLoops == { j \in 1..Len(streamLoops) : streamLoops[j] # "Exited" }

\* C38: in the capture app at most one streaming_loop task is live at any
\* time, whatever the interleaving of start_streaming, stop_streaming and
\* disconnect_transport calls: no second loop is spawned while an earlier
\* one still runs
C38_OneStreamingLoop == Cardinality(LiveStreamLoops) <= 1

\* a start_streaming that finds is_streaming set returns 'Already streaming'
\* and changes nothing else
C38_AlreadyStreamingRefused ==
    [][\A i \in 1..MaxStarts :
          (Len(startCalls') >= i /\ Len(startCalls) < i) =>
              /\ (startCalls'[i] = "Refused") = is_streaming
              /\ UNCHANGED <<is_streaming, capture_stream_is_some, streamLoops>>]_vars

\* C39: in the display app, between commands, the status is Receiving exactly
\* when is_receiving is set, for every order of wait_for_connection,
\* start_display, stop_display, disconnect and the ends of receiving loops;
\* the status an ending loop writes does not replace the Receiving of a later
\* start_display
C39_StatusAgreesWithFlag == (connection_status = "Receiving") <=> is_receiving

\* the first loop has ended and written its status after the second
\* start_display, whose loop still runs
EndedLoopOverwrote ==
    /\ Len(recvLoops) = 2
    /\ recvLoops[1].pc = "Exited" /\ recvLoops[2].pc \in {"Test", "Sleep"}
    /\ is_receiving /\ connection_status = "Connected"

(***************************************************************************)
(* The size of a FRAME packet on the wire against one USB bulk transfer    *)
(***************************************************************************)
\* usb.rs: the length of the RequestBuffer that UsbTransport::recv hands to
\* bulk_in
TRANSFER_SIZE == 65536

\* FrameSegment::to_payload: the length of the payload buffer, the FrameHeader
\* followed by the segment's bytes
to_payload_len(payload) == FRAME_HEADER_SIZE + ByteLen(payload.data)

\* Packet::to_bytes: total_size of a FRAME packet
total_size(p) == HEADER_SIZE + to_payload_len(p.payload) + CRC_SIZE

\* UsbTransport::recv: the bytes one bulk_in completion can hold of a buffer
\* of len bytes
completion_len(len) == IF len <= TRANSFER_SIZE THEN len ELSE TRANSFER_SIZE

====
